---- MODULE Spec2Model ----
(***************************************************************************)
(* Model of the TurtleTracker retrieval backend: the four persisted        *)
(* artifacts (vocabulary, index, metadata, vector matrix), the in-memory   *)
(* GLOBAL_RESOURCES, the rebuild, the startup load, the approval of a new  *)
(* turtle, the search's reads of the shared resources and the reset        *)
(* script's clear_training_data.                                           *)
(*                                                                         *)
(* A file write (np.save, joblib.dump, faiss.write_index) is one atomic    *)
(* step; the steps of one function are interleaved with the steps of the   *)
(* other request threads (Flask serves each request on its own thread).    *)
(***************************************************************************)
EXTENDS Naturals, Sequences, FiniteSets, TLC

\* ------------------------------------------------------------------ bounds
\* number of operations (startup, approval, search, clear) in one behaviour
MaxOps == 4
\* rows of the index in the search calls whose candidates meet every
\* verification outcome
SmallRows == 2
\* rows of the index in the search calls that rank many candidates
MaxRows == 7
\* seconds the clock advances while the review queue is worked on
MaxClock == 1
\* entries of one packet's manifest of additional images
MaxManifest == 3
\* calls of the review handlers in one run
MaxCalls == 2

\* ------------------------------------------------------- program constants
\* batches of 100 sidecars are accumulated before one partial_fit
BATCH_FILES == 100

\* ------------------------------------------------------------ static sets
\* the manager's initialisation thread and two request threads
Workers == {"w1", "w2"}
Procs == {"init"} \cup Workers

\* sidecar paths root/<state>/<location>/<turtle_id>/ref_data/<id>.npz,
\* split at the path separator; the last one is a single-level location
P1 == <<"data", "KS", "L1", "T1", "ref_data", "T1.npz">>
P2 == <<"data", "KS", "L2", "T2", "ref_data", "T2.npz">>
AllPaths == {P1, P2}

\* os.walk visits the tree in one fixed order
WalkOrder == <<P1, P2>>

Artifacts == {"vocab", "index", "meta", "vlad"}

\* ------------------------------------------------------------ file values
\* a vocabulary: the sidecars whose descriptors it was fitted on and the
\* number of partial_fit calls applied (0: no cluster_centers_)
NoVocab == [some |-> FALSE, centers |-> {}, fits |-> 0]
\* an index / a vector matrix: its rows (the sidecar of each row) and the
\* vocabulary centers the rows were encoded with
NoRows == [some |-> FALSE, rows |-> <<>>, centers |-> {}]
\* the metadata list
NoMeta == [some |-> FALSE, rows |-> <<>>]

NoDisk == [vocab |-> NoVocab, index |-> NoRows, meta |-> NoMeta, vlad |-> NoRows]

\* what smart_search holds before it has read anything; gv, gi, gm are the
\* calls that had assigned the vocabulary, index and metadata it read
NoSnap == [vocab |-> NoVocab, index |-> NoRows, meta |-> NoMeta,
           gv |-> 0, gi |-> 0, gm |-> 0]
\* the fields of a fresh process were assigned by no call
NoGen == [vocab |-> 0, index |-> 0, meta |-> 0, vlad |-> 0]
\* no search call is under study
NoCall == [fn |-> "-"]

VARIABLES
    corpus,      \* per sidecar path: what lies in its ref_data folder
    disk,        \* the four artifact files
    mem,         \* GLOBAL_RESOURCES
    memGen,      \* per field of GLOBAL_RESOURCES: the call that assigned it
    phase,       \* "down", "starting", "up", "failed" (manager is None)
    pc,          \* per thread: position in its function
    kmeans,      \* per thread: kmeans_vocab of its rebuild
    fitted,      \* per thread: vocab_was_fitted of its rebuild
    rows,        \* per thread: the paths behind all_vlad / final_meta
    ret,         \* per thread: how its rebuild ended
    arg,         \* per thread: the sidecar path of the turtle it approves
    opid,        \* per thread: the number of the call it executes
    snap,        \* per thread: vocab, index, metadata read by smart_search
    result,      \* per thread: outcome of its last approval
    startDisk,   \* per thread: the artifact files when its rebuild started
    startMem,    \* per thread: GLOBAL_RESOURCES when its rebuild started
    budget,      \* operations left
    sq,          \* the search call under study: its arguments and what the
                 \* image library answers during it
    out,         \* what that call returned
    tmp,         \* per image file name: the TEMP_MIRROR file of that name
    sm,          \* per request thread: its call of search_for_matches
    queue,       \* per request id: the packet directory in Review_Queue
    turtles,     \* per turtle folder: what lies in it beside ref_data
    dirs,        \* which of Review_Queue and the directory next to it exist
    clock,       \* int(time.time())
    ready,       \* manager_ready is set
    hs           \* per request thread: its position in a route handler

\* the state the request handlers keep outside the retrieval artifacts
requestVars == <<tmp, sm, queue, turtles, dirs, clock, hs>>

vars == <<corpus, disk, mem, memGen, phase, pc, kmeans, fitted, rows, ret, arg,
          opid, snap, result, startDisk, startMem, budget, sq, out, ready,
          requestVars>>

\* ---------------------------------------------------------------- helpers
RECURSIVE SeqToSet(_)
SeqToSet(s) == IF s = <<>> THEN {} ELSE {Head(s)} \cup SeqToSet(Tail(s))

\* a .npz file exists at the path
HasNpz(c, p) == c[p] \in {"ok", "corrupt"}

\* the .npz files an os.walk of the data directory finds, in walk order
WalkNpz(c) == SelectSeq(WalkOrder, LAMBDA p : HasNpz(c, p))

\* position of the first 'ref_data' in the path parts, 0 if there is none
RECURSIVE IndexOfRefData(_, _)
IndexOfRefData(parts, k) ==
    IF k > Len(parts) THEN 0
    ELSE IF parts[k] = "ref_data" THEN k
    ELSE IndexOfRefData(parts, k + 1)

\* the metadata entry appended for a sidecar path
MetaEntry(path) ==
    LET k == IndexOfRefData(path, 1) IN
    IF k = 0
    THEN [filename |-> path[Len(path)], file_path |-> path,
          site_id |-> "Unknown", location |-> "Unknown", state |-> "Unknown"]
    ELSE [filename |-> path[Len(path)], file_path |-> path,
          site_id |-> path[k - 1], location |-> path[k - 2],
          state |-> IF k - 1 >= 3 THEN path[k - 3] ELSE path[k - 2]]

\* the training loop over all_npz: b is len(batch), s the sidecars fitted
\* so far, n the number of partial_fit calls so far
RECURSIVE TrainLoop(_, _, _, _, _, _)
TrainLoop(c, all, i, b, s, n) ==
    IF i > Len(all) THEN [centers |-> s, fits |-> n]
    ELSE LET usable == c[all[i]] = "ok"
             b1 == IF usable THEN b + 1 ELSE b
             s1 == IF usable THEN s \cup {all[i]} ELSE s
             flush == (b1 >= BATCH_FILES \/ i = Len(all)) /\ b1 > 0
         IN TrainLoop(c, all, i + 1, IF flush THEN 0 ELSE b1, s1,
                      IF flush THEN n + 1 ELSE n)

Train(c) == TrainLoop(c, WalkNpz(c), 1, 0, {}, 0)

\* the sidecars that contribute a vector and a metadata entry
EncodeRows(c) == SelectSeq(WalkNpz(c), LAMBDA p : c[p] = "ok")

MetaRows(ps) == [i \in 1..Len(ps) |-> MetaEntry(ps[i])]

InRebuild(t) == pc[t] \in {"rb_vocab", "rb_dump", "rb_encode", "rb_save",
                           "rb_meta", "rb_index"}

\* ------------------------------------------------------------------- Init
\* the file names two uploaded query images can have
Bases == {"a.jpg", "b.jpg"}

\* a request thread that is not in search_for_matches
NoSearch == [pc |-> "idle"]

\* a request thread that is in no route handler
NoRequest == [pc |-> "idle", route |-> "-", resp |-> "-", waited |-> "-"]

\* the request id of an upload
Reqs == {"R1"}

\* no packet directory of that name
NoPacket == [some |-> FALSE, image |-> "none", manifest |-> <<>>, files |-> {}]

\* a turtle folder holding nothing beside its reference data: no loose
\* images, no sidecar in loose_images, no additional_images folder, no
\* find_metadata.json
NoFindMetadata == [file |-> "none", flag |-> FALSE, released |-> FALSE]
NoTurtleData == [loose |-> {}, npz |-> {}, manifest |-> <<>>, files |-> {},
                 meta |-> NoFindMetadata]

\* Review_Queue and a directory beside it whose name starts the same way
\* (Review_Queue_old): a path is the sequence of its components, a
\* component the sequence of the pieces of its name
DataDir == << <<"data">> >>
ReviewQueueDir == << <<"data">>, <<"Review_Queue">> >>
SiblingDir == << <<"data">>, <<"Review_Queue", "_old">> >>

\* no request is being handled, no temporary file exists, the review queue
\* is empty and the turtle folders hold their reference data only
RequestsIdle ==
    /\ tmp = [b \in Bases |-> "none"]
    /\ sm = [w \in Workers |-> NoSearch]
    /\ queue = [r \in Reqs |-> NoPacket]
    /\ turtles = [p \in AllPaths |-> NoTurtleData]
    /\ dirs = {DataDir, ReviewQueueDir}
    /\ clock = 0
    /\ ready = (phase \in {"up", "failed"})
    /\ hs = [w \in Workers |-> NoRequest]

Init ==
    /\ corpus \in [AllPaths -> {"none", "ok", "corrupt"}]
    /\ disk = NoDisk
    /\ mem = NoDisk
    /\ memGen = NoGen
    /\ phase = "down"
    /\ pc = [t \in Procs |-> "idle"]
    /\ kmeans = [t \in Procs |-> NoVocab]
    /\ fitted = [t \in Procs |-> FALSE]
    /\ rows = [t \in Procs |-> <<>>]
    /\ ret = [t \in Procs |-> "-"]
    /\ arg = [t \in Procs |-> <<>>]
    /\ opid = [t \in Procs |-> 0]
    /\ snap = [t \in Procs |-> NoSnap]
    /\ result = [t \in Procs |-> "-"]
    /\ startDisk = [t \in Procs |-> NoDisk]
    /\ startMem = [t \in Procs |-> NoDisk]
    /\ budget = MaxOps
    /\ sq = NoCall
    /\ out = NoCall
    /\ RequestsIdle


\* ------------------------------------------------------- shared fragments
\* the four loaders: a missing file loads as None ([] for the metadata)
load_vocabulary(d) == d.vocab
load_faiss_index(d) == d.index
load_metadata(d) == d.meta
load_vlad_array(d) == d.vlad

\* (mutant) every startup rebuilds
ResourcesLoaded_Never(m) == FALSE

\* the test that decides at startup that nothing has to be rebuilt
ResourcesLoaded(m) == m.vocab.some /\ m.index.some

\* step 1 of the rebuild: every reference image without a sidecar gets one
\* (an image without features gets none)
RegenerateNpz(c) == [p \in AllPaths |-> IF c[p] = "img" THEN "ok" ELSE c[p]]

\* (mutant) the persisted vocabulary is never taken: every rebuild retrains
ReusableVocab_Never(v) == NoVocab

\* step 2 of the rebuild, first half: the persisted vocabulary is taken as
\* it is when it has cluster centers
ReusableVocab(v) == IF v.some /\ v.fits >= 1 THEN v ELSE NoVocab

\* (mutant) the vocabulary is saved whether or not a partial_fit was applied
VocabWasFitted_Always(tr) == TRUE

\* vocab_was_fitted after the training loop: only then is the vocabulary saved
VocabWasFitted(tr) == tr.fits > 0

\* where a thread goes on when its rebuild has returned
AfterRebuild(t) == IF t = "init" THEN "st_reload" ELSE "ld_vocab"

ResetLocals(t) ==
    /\ kmeans' = [kmeans EXCEPT ![t] = NoVocab]
    /\ fitted' = [fitted EXCEPT ![t] = FALSE]
    /\ rows' = [rows EXCEPT ![t] = <<>>]
    /\ ret' = [ret EXCEPT ![t] = "-"]
    /\ arg' = [arg EXCEPT ![t] = <<>>]
    /\ opid' = [opid EXCEPT ![t] = 0]
    /\ startDisk' = [startDisk EXCEPT ![t] = NoDisk]
    /\ startMem' = [startMem EXCEPT ![t] = NoDisk]

\* ---------------------------------------------------------------- startup
\* load_or_generate_persistent_data, vocabulary and index both loaded
StartupLoaded ==
    /\ phase = "down" /\ budget > 0
    /\ ResourcesLoaded(disk)
    /\ mem' = [vocab |-> load_vocabulary(disk), index |-> load_faiss_index(disk),
               meta |-> load_metadata(disk), vlad |-> load_vlad_array(disk)]
    /\ memGen' = [vocab |-> budget, index |-> budget, meta |-> budget, vlad |-> budget]
    /\ phase' = "up"
    /\ ready' = TRUE
    /\ budget' = budget - 1
    /\ UNCHANGED <<requestVars, sq, out, corpus, disk, pc, kmeans, fitted, rows, ret, arg, opid, snap,
                   result, startDisk, startMem>>

\* load_or_generate_persistent_data, one of the two missing: rebuild
StartupRebuild ==
    /\ phase = "down" /\ budget > 0
    /\ ~ResourcesLoaded(disk)
    /\ mem' = [vocab |-> load_vocabulary(disk), index |-> load_faiss_index(disk),
               meta |-> load_metadata(disk), vlad |-> load_vlad_array(disk)]
    /\ memGen' = [vocab |-> budget, index |-> budget, meta |-> budget, vlad |-> budget]
    /\ opid' = [opid EXCEPT !["init"] = budget]
    /\ phase' = "starting"
    /\ pc' = [pc EXCEPT !["init"] = "rb_vocab"]
    /\ startDisk' = [startDisk EXCEPT !["init"] = disk]
    /\ startMem' = [startMem EXCEPT !["init"] = mem']
    /\ budget' = budget - 1
    /\ UNCHANGED <<ready, requestVars, sq, out, corpus, disk, kmeans, fitted, rows, ret, arg, snap, result>>

\* the reload after the startup rebuild (the vector matrix is not reloaded)
StartupReload ==
    /\ pc["init"] = "st_reload"
    /\ mem' = [mem EXCEPT !.vocab = load_vocabulary(disk),
                          !.index = load_faiss_index(disk),
                          !.meta = load_metadata(disk)]
    /\ memGen' = [memGen EXCEPT !.vocab = opid["init"], !.index = opid["init"],
                                !.meta = opid["init"]]
    /\ phase' = "up"
    /\ ready' = TRUE
    /\ pc' = [pc EXCEPT !["init"] = "idle"]
    /\ ResetLocals("init")
    /\ UNCHANGED <<requestVars, sq, out, corpus, disk, snap, result, budget>>

\* ---------------------------------------------------------------- rebuild
\* steps 1 and 2 up to the fit: regenerate the sidecars, take the persisted
\* vocabulary or fit a new one over all sidecars
RebuildVocab(t) ==
    /\ pc[t] = "rb_vocab"
    /\ corpus' = RegenerateNpz(corpus)
    /\ LET old == ReusableVocab(disk.vocab)
           tr == Train(corpus')
       IN IF old.some
          THEN /\ kmeans' = [kmeans EXCEPT ![t] = old]
               /\ fitted' = fitted
               /\ pc' = [pc EXCEPT ![t] = "rb_encode"]
               /\ ret' = ret
          ELSE IF VocabWasFitted(tr)
          THEN /\ kmeans' = [kmeans EXCEPT ![t] =
                                [some |-> TRUE, centers |-> tr.centers, fits |-> tr.fits]]
               /\ fitted' = [fitted EXCEPT ![t] = TRUE]
               /\ pc' = [pc EXCEPT ![t] = "rb_dump"]
               /\ ret' = ret
          ELSE /\ kmeans' = [kmeans EXCEPT ![t] = NoVocab]
               /\ fitted' = fitted
               /\ pc' = [pc EXCEPT ![t] = AfterRebuild(t)]
               /\ ret' = [ret EXCEPT ![t] = "none"]
    /\ UNCHANGED <<ready, requestVars, sq, out, disk, mem, memGen, phase, rows, arg, opid, snap, result, startDisk,
                   startMem, budget>>

\* joblib.dump of the fitted vocabulary
RebuildDumpVocab(t) ==
    /\ pc[t] = "rb_dump"
    /\ disk' = [disk EXCEPT !.vocab = kmeans[t]]
    /\ pc' = [pc EXCEPT ![t] = "rb_encode"]
    /\ UNCHANGED <<ready, requestVars, sq, out, corpus, mem, memGen, phase, kmeans, fitted, rows, ret, arg, opid, snap,
                   result, startDisk, startMem, budget>>

\* step 3: encode every usable sidecar
RebuildEncode(t) ==
    /\ pc[t] = "rb_encode"
    /\ rows' = [rows EXCEPT ![t] = EncodeRows(corpus)]
    /\ IF rows'[t] # <<>>
       THEN /\ pc' = [pc EXCEPT ![t] = "rb_save"]
            /\ ret' = ret
       ELSE /\ pc' = [pc EXCEPT ![t] = AfterRebuild(t)]
            /\ ret' = [ret EXCEPT ![t] = "none"]
    /\ UNCHANGED <<ready, requestVars, sq, out, corpus, disk, mem, memGen, phase, kmeans, fitted, arg, opid, snap,
                   result, startDisk, startMem, budget>>

\* np.save of the vector matrix
RebuildSaveVlad(t) ==
    /\ pc[t] = "rb_save"
    /\ disk' = [disk EXCEPT !.vlad = [some |-> TRUE, rows |-> rows[t],
                                      centers |-> kmeans[t].centers]]
    /\ pc' = [pc EXCEPT ![t] = "rb_meta"]
    /\ UNCHANGED <<ready, requestVars, sq, out, corpus, mem, memGen, phase, kmeans, fitted, rows, ret, arg, opid, snap,
                   result, startDisk, startMem, budget>>

\* joblib.dump of the metadata
RebuildDumpMeta(t) ==
    /\ pc[t] = "rb_meta"
    /\ disk' = [disk EXCEPT !.meta = [some |-> TRUE, rows |-> MetaRows(rows[t])]]
    /\ pc' = [pc EXCEPT ![t] = "rb_index"]
    /\ UNCHANGED <<ready, requestVars, sq, out, corpus, mem, memGen, phase, kmeans, fitted, rows, ret, arg, opid, snap,
                   result, startDisk, startMem, budget>>

\* faiss.write_index; the rebuild returns the vocabulary
RebuildWriteIndex(t) ==
    /\ pc[t] = "rb_index"
    /\ disk' = [disk EXCEPT !.index = [some |-> TRUE, rows |-> rows[t],
                                       centers |-> kmeans[t].centers]]
    /\ pc' = [pc EXCEPT ![t] = AfterRebuild(t)]
    /\ ret' = [ret EXCEPT ![t] = "ok"]
    /\ UNCHANGED <<ready, requestVars, sq, out, corpus, mem, memGen, phase, kmeans, fitted, rows, arg, opid, snap,
                   result, startDisk, startMem, budget>>

\* one of the four writes raises (disk full, no permission): nothing in the
\* rebuild catches it; an approval ends with the exception, the manager's
\* initialisation ends with manager = None
RebuildRaise(t) ==
    /\ pc[t] \in {"rb_dump", "rb_save", "rb_meta", "rb_index"}
    /\ ret' = [ret EXCEPT ![t] = "raised"]
    /\ ready' = (t = "init" \/ ready)
    /\ IF t = "init"
       THEN /\ phase' = "failed"
            /\ pc' = [pc EXCEPT ![t] = "idle"]
            /\ result' = result
       ELSE /\ phase' = phase
            /\ pc' = [pc EXCEPT ![t] = "ap_done"]
            /\ result' = [result EXCEPT ![t] = "raised"]
    /\ UNCHANGED <<requestVars, sq, out, corpus, disk, mem, memGen, kmeans, fitted, rows, arg, opid, snap,
                   startDisk, startMem, budget>>


\* ----------------------------------------------------------------- reload
\* rebuild_index_and_reload after the rebuild: four assignments, one field
\* of GLOBAL_RESOURCES each
ReloadVocab(t) ==
    /\ pc[t] = "ld_vocab"
    /\ mem' = [mem EXCEPT !.vocab = load_vocabulary(disk)]
    /\ memGen' = [memGen EXCEPT !.vocab = opid[t]]
    /\ pc' = [pc EXCEPT ![t] = "ld_index"]
    /\ UNCHANGED <<ready, requestVars, sq, out, corpus, disk, phase, kmeans, fitted, rows, ret, arg, opid, snap,
                   result, startDisk, startMem, budget>>

ReloadIndex(t) ==
    /\ pc[t] = "ld_index"
    /\ mem' = [mem EXCEPT !.index = load_faiss_index(disk)]
    /\ memGen' = [memGen EXCEPT !.index = opid[t]]
    /\ pc' = [pc EXCEPT ![t] = "ld_meta"]
    /\ UNCHANGED <<ready, requestVars, sq, out, corpus, disk, phase, kmeans, fitted, rows, ret, arg, opid, snap,
                   result, startDisk, startMem, budget>>

ReloadMeta(t) ==
    /\ pc[t] = "ld_meta"
    /\ mem' = [mem EXCEPT !.meta = load_metadata(disk)]
    /\ memGen' = [memGen EXCEPT !.meta = opid[t]]
    /\ pc' = [pc EXCEPT ![t] = "ld_vlad"]
    /\ UNCHANGED <<ready, requestVars, sq, out, corpus, disk, phase, kmeans, fitted, rows, ret, arg, opid, snap,
                   result, startDisk, startMem, budget>>

\* the last assignment; approve_review_packet then returns success
ReloadVlad(t) ==
    /\ pc[t] = "ld_vlad"
    /\ mem' = [mem EXCEPT !.vlad = load_vlad_array(disk)]
    /\ memGen' = [memGen EXCEPT !.vlad = opid[t]]
    /\ pc' = [pc EXCEPT ![t] = "ap_done"]
    /\ result' = [result EXCEPT ![t] = "created"]
    /\ UNCHANGED <<ready, requestVars, sq, out, corpus, disk, phase, kmeans, fitted, rows, ret, arg, opid, snap,
                   startDisk, startMem, budget>>

\* --------------------------------------------------------------- approval
\* approve_review_packet with new_location and new_turtle_id naming the
\* sidecar path p: _process_single_turtle finds the sidecar (skipped)
ApproveSkipped(t, p) ==
    /\ phase = "up" /\ pc[t] = "idle" /\ budget > 0
    /\ HasNpz(corpus, p)
    /\ arg' = [arg EXCEPT ![t] = p]
    /\ opid' = [opid EXCEPT ![t] = budget]
    /\ result' = [result EXCEPT ![t] = "skipped"]
    /\ pc' = [pc EXCEPT ![t] = "ap_done"]
    /\ budget' = budget - 1
    /\ UNCHANGED <<ready, requestVars, sq, out, corpus, disk, mem, memGen, phase, kmeans, fitted, rows, ret, snap,
                   startDisk, startMem>>

\* the image is copied, feature extraction fails: status "error"
ApproveError(t, p) ==
    /\ phase = "up" /\ pc[t] = "idle" /\ budget > 0
    /\ ~HasNpz(corpus, p)
    /\ corpus' = [corpus EXCEPT ![p] = "blank"]
    /\ arg' = [arg EXCEPT ![t] = p]
    /\ opid' = [opid EXCEPT ![t] = budget]
    /\ result' = [result EXCEPT ![t] = "error"]
    /\ pc' = [pc EXCEPT ![t] = "ap_done"]
    /\ budget' = budget - 1
    /\ UNCHANGED <<ready, requestVars, sq, out, disk, mem, memGen, phase, kmeans, fitted, rows, ret, snap,
                   startDisk, startMem>>

\* the image is copied and its sidecar written: status "created", the
\* approval goes on with rebuild_index_and_reload
ApproveCreated(t, p) ==
    /\ phase = "up" /\ pc[t] = "idle" /\ budget > 0
    /\ ~HasNpz(corpus, p)
    /\ corpus' = [corpus EXCEPT ![p] = "ok"]
    /\ arg' = [arg EXCEPT ![t] = p]
    /\ opid' = [opid EXCEPT ![t] = budget]
    /\ pc' = [pc EXCEPT ![t] = "rb_vocab"]
    /\ startDisk' = [startDisk EXCEPT ![t] = disk]
    /\ startMem' = [startMem EXCEPT ![t] = mem]
    /\ budget' = budget - 1
    /\ UNCHANGED <<ready, requestVars, sq, out, disk, mem, memGen, phase, kmeans, fitted, rows, ret, snap, result>>

\* the approval has returned to its caller
ApproveReturn(t) ==
    /\ pc[t] = "ap_done"
    /\ pc' = [pc EXCEPT ![t] = "idle"]
    /\ result' = [result EXCEPT ![t] = "-"]
    /\ ResetLocals(t)
    /\ UNCHANGED <<ready, requestVars, sq, out, corpus, disk, mem, memGen, phase, snap, budget>>

\* ----------------------------------------------------------------- search
\* smart_search reads GLOBAL_RESOURCES in three statements
SearchReadVocab(t) ==
    /\ phase = "up" /\ pc[t] = "idle" /\ budget > 0
    /\ snap' = [snap EXCEPT ![t] = [NoSnap EXCEPT !.vocab = mem.vocab,
                                                   !.gv = memGen.vocab]]
    /\ pc' = [pc EXCEPT ![t] = "s_index"]
    /\ budget' = budget - 1
    /\ UNCHANGED <<ready, requestVars, sq, out, corpus, disk, mem, memGen, phase, kmeans, fitted, rows, ret, arg, opid,
                   result, startDisk, startMem>>

SearchReadIndex(t) ==
    /\ pc[t] = "s_index"
    /\ snap' = [snap EXCEPT ![t].index = mem.index, ![t].gi = memGen.index]
    /\ pc' = [pc EXCEPT ![t] = "s_meta"]
    /\ UNCHANGED <<ready, requestVars, sq, out, corpus, disk, mem, memGen, phase, kmeans, fitted, rows, ret, arg, opid,
                   result, startDisk, startMem, budget>>

SearchReadMeta(t) ==
    /\ pc[t] = "s_meta"
    /\ snap' = [snap EXCEPT ![t].meta = mem.meta, ![t].gm = memGen.meta]
    /\ pc' = [pc EXCEPT ![t] = "s_run"]
    /\ UNCHANGED <<ready, requestVars, sq, out, corpus, disk, mem, memGen, phase, kmeans, fitted, rows, ret, arg, opid,
                   result, startDisk, startMem, budget>>

\* the search has run on what it read and returns
SearchReturn(t) ==
    /\ pc[t] = "s_run"
    /\ snap' = [snap EXCEPT ![t] = NoSnap]
    /\ pc' = [pc EXCEPT ![t] = "idle"]
    /\ UNCHANGED <<ready, requestVars, sq, out, corpus, disk, mem, memGen, phase, kmeans, fitted, rows, ret, arg, opid,
                   result, startDisk, startMem, budget>>

\* ------------------------------------------------------------------ reset
\* what clear_training_data leaves of one model file: os.remove of a file
\* in failed raises, the error is printed and the loop goes on
RemoveModelFile(f, failed, none) == IF f.some /\ failed THEN f ELSE none

\* clear_training_data of the reset script, run while the server is down:
\* every sidecar is deleted, then the model files, each os.remove on its own
ClearTrainingData(fail) ==
    /\ phase = "down" /\ budget > 0
    /\ corpus' = [p \in AllPaths |-> IF HasNpz(corpus, p) THEN "img" ELSE corpus[p]]
    /\ disk' = [vocab |-> RemoveModelFile(disk.vocab, "vocab" \in fail, NoVocab),
                index |-> RemoveModelFile(disk.index, "index" \in fail, NoRows),
                vlad |-> RemoveModelFile(disk.vlad, "vlad" \in fail, NoRows),
                meta |-> RemoveModelFile(disk.meta, "meta" \in fail, NoMeta)]
    /\ budget' = budget - 1
    /\ UNCHANGED <<ready, requestVars, sq, out, mem, memGen, phase, pc, kmeans, fitted, rows, ret, arg, opid, snap,
                   result, startDisk, startMem>>

\* clear_official_turtle_data of the reset script, run while the server is
\* down: the folder of every state is removed with all its turtles; of a
\* folder whose rmtree raises (the error is printed) the turtles in keep
\* are left
ClearOfficialTurtleData(keep) ==
    /\ phase = "down" /\ budget > 0
    /\ corpus' = [p \in AllPaths |-> IF p \in keep THEN corpus[p] ELSE "none"]
    /\ budget' = budget - 1
    /\ UNCHANGED <<ready, requestVars, sq, out, disk, mem, memGen, phase, pc, kmeans, fitted, rows, ret, arg,
                   opid, snap, result, startDisk, startMem>>

\* the server process ends (shutdown or kill), whatever its threads do
Stop ==
    /\ phase # "down"
    /\ phase' = "down"
    /\ ready' = FALSE
    /\ mem' = NoDisk
    /\ memGen' = NoGen
    /\ pc' = [t \in Procs |-> "idle"]
    /\ kmeans' = [t \in Procs |-> NoVocab]
    /\ fitted' = [t \in Procs |-> FALSE]
    /\ rows' = [t \in Procs |-> <<>>]
    /\ ret' = [t \in Procs |-> "-"]
    /\ arg' = [t \in Procs |-> <<>>]
    /\ opid' = [t \in Procs |-> 0]
    /\ snap' = [t \in Procs |-> NoSnap]
    /\ result' = [t \in Procs |-> "-"]
    /\ startDisk' = [t \in Procs |-> NoDisk]
    /\ startMem' = [t \in Procs |-> NoDisk]
    /\ UNCHANGED <<requestVars, sq, out, corpus, disk, budget>>

\* ------------------------------------------------------ search: constants
\* k_results that search_for_matches passes to smart_search
K_RESULTS == 20
\* search_k is k_results * 10 with a location filter and k_results * 5 without
SEARCH_K_FILTERED == 10
SEARCH_K_ALL == 5
MATCH_CONFIDENCE_THRESHOLD == 15
\* findHomography is called with at least this many ratio-test survivors
MIN_GOOD_MATCHES == 4
\* search_for_matches returns results[:5]
TOP_RESULTS == 5

\* ------------------------------------------------------- search: the inputs
\* the sidecars an index can hold, in the order of its rows: turtle id T1
\* at two locations, then one sidecar per turtle id, in two states
Library == <<
    <<"data", "KS", "L1", "T1", "ref_data", "T1.npz">>,
    <<"data", "KS", "L2", "T1", "ref_data", "T1.npz">>,
    <<"data", "KS", "L2", "T2", "ref_data", "T2.npz">>,
    <<"data", "MO", "L3", "T3", "ref_data", "T3.npz">>,
    <<"data", "MO", "L3", "T4", "ref_data", "T4.npz">>,
    <<"data", "MO", "L3", "T5", "ref_data", "T5.npz">>,
    <<"data", "MO", "L4", "T6", "ref_data", "T6.npz">>,
    <<"data", "MO", "L4", "T7", "ref_data", "T7.npz">>,
    <<"data", "MO", "L4", "T8", "ref_data", "T8.npz">> >>

\* what the verification of one candidate meets: the state of its sidecar
\* file, whether matching raises, the number of matches surviving the ratio
\* test, whether findHomography would give a mask and its inliers
Outcome(file, raises, good, mask, inliers) ==
    [file |-> file, raises |-> raises, good |-> good, mask |-> mask,
     inliers |-> inliers]
Missing == Outcome("missing", FALSE, 0, FALSE, 0)
Unreadable == Outcome("unreadable", FALSE, 0, FALSE, 0)
SingleDescriptor == Outcome("single", FALSE, 0, FALSE, 0)
MatchRaises == Outcome("ok", TRUE, 0, FALSE, 0)
NoMask(good) == Outcome("ok", FALSE, good, FALSE, 0)
Found(good, inliers) == Outcome("ok", FALSE, good, TRUE, inliers)

Min(a, b) == IF a <= b THEN a ELSE b
Take(s, n) == SubSeq(s, 1, Min(n, Len(s)))
Reverse(s) == [i \in 1..Len(s) |-> s[Len(s) + 1 - i]]

\* ------------------------------------------------------ search: the code
\* the entry smart_search appends for a metadata row (spatial_score and
\* is_mirrored are the keys added later; scored: spatial_score is set)
Candidate(meta, dist) ==
    [filename |-> meta.filename, file_path |-> meta.file_path,
     site_id |-> meta.site_id, location |-> meta.location, distance |-> dist,
     scored |-> FALSE, spatial_score |-> 0, is_mirrored |-> FALSE]

\* location_filter = (sheet_name or '').strip() or None; "" stands for None
LocationFilter(sheet) == IF sheet = " " THEN "" ELSE sheet

\* (mutant) only the state field is compared with the filter
PassesFilter_StateOnly(meta, f) == f = "" \/ meta.state = f

\* a row is skipped when a filter is set and neither field equals it
PassesFilter(meta, f) == f = "" \/ meta.state = f \/ meta.location = f

\* (mutant) every row is appended, seen or not
IsNewSite_Always(site_id, seen) == TRUE

IsNewSite(site_id, seen) == site_id \notin seen

\* the loop over the rows FAISS returned, nearest first; i is the rank
RECURSIVE SearchLoop(_, _, _, _, _, _, _)
SearchLoop(idxs, i, metadata, f, k, results, seen) ==
    IF i > Len(idxs) THEN results
    ELSE IF idxs[i] > Len(metadata)
    THEN SearchLoop(idxs, i + 1, metadata, f, k, results, seen)
    ELSE LET meta == metadata[idxs[i]] IN
         IF ~PassesFilter(meta, f)
         THEN SearchLoop(idxs, i + 1, metadata, f, k, results, seen)
         ELSE LET r1 == IF IsNewSite(meta.site_id, seen)
                        THEN Append(results, Candidate(meta, i))
                        ELSE results
              IN IF Len(r1) >= k THEN r1
                 ELSE SearchLoop(idxs, i + 1, metadata, f, k, r1,
                                 seen \cup {meta.site_id})

\* index.search(query_vector, search_k): the search_k nearest rows (order
\* lists the rows of the index nearest first); the -1 entries that pad a
\* shorter answer are skipped by the loop and left out here
IndexSearch(order, search_k) == Take(order, search_k)

\* (mutant) no early return
SearchPrecondition_None(res) == TRUE

\* the early returns of smart_search: vocabulary and index present, the
\* vocabulary has cluster centers, the index has rows
SearchPrecondition(res) ==
    /\ res.vocab.some /\ res.index.some
    /\ res.vocab.fits >= 1
    /\ Len(res.index.rows) > 0

\* smart_search on the resources res for a query image of the given kind;
\* encoded: compute_vlad was called, searched: index.search was called
SmartSearch(res, kind, order, f, k) ==
    IF ~SearchPrecondition(res)
    THEN [results |-> <<>>, encoded |-> FALSE, searched |-> FALSE, raised |-> FALSE]
    ELSE IF kind # "ok"
    THEN [results |-> <<>>, encoded |-> FALSE, searched |-> FALSE, raised |-> FALSE]
    ELSE IF ~(res.vocab.some /\ res.vocab.fits >= 1)
    THEN [results |-> <<>>, encoded |-> TRUE, searched |-> FALSE, raised |-> TRUE]
    ELSE IF ~res.index.some
    THEN [results |-> <<>>, encoded |-> TRUE, searched |-> TRUE, raised |-> TRUE]
    ELSE LET search_k == IF f # "" THEN k * SEARCH_K_FILTERED ELSE k * SEARCH_K_ALL
             idxs == IndexSearch(order, search_k)
         IN [results |-> SearchLoop(idxs, 1, res.meta.rows, f, k, <<>>, {}),
             encoded |-> TRUE, searched |-> TRUE, raised |-> FALSE]

\* (mutant) homography is estimated from three matches on
EnoughForHomography_Three(good) == good >= 3

\* len(good) >= 4: only then is findHomography called
EnoughForHomography(good) == good >= MIN_GOOD_MATCHES

\* (mutant) an exception while matching one candidate ends the whole call
OnMatchError_Propagate == "raise"

\* the try/except around the matching of one candidate: the error is
\* printed and the loop goes on with the next candidate
OnMatchError == "skip"

\* the body of the verification loop for one candidate c meeting outcome o:
\* keep: c is appended with the score, homography: findHomography was
\* called, abort: an exception leaves the loop
VerifyCandidate(c, o) ==
    LET drop == [keep |-> FALSE, score |-> 0, homography |-> FALSE, abort |-> FALSE]
    IN IF c.file_path = <<>> \/ o.file = "missing" THEN drop
       ELSE IF o.file = "unreadable" THEN drop
       ELSE IF o.file = "single"
       THEN [keep |-> TRUE, score |-> 0, homography |-> FALSE, abort |-> FALSE]
       ELSE IF o.raises THEN [drop EXCEPT !.abort = (OnMatchError = "raise")]
       ELSE IF EnoughForHomography(o.good)
       THEN [keep |-> TRUE, score |-> IF o.mask THEN o.inliers ELSE 0,
             homography |-> TRUE, abort |-> FALSE]
       ELSE [keep |-> TRUE, score |-> 0, homography |-> FALSE, abort |-> FALSE]

\* the loop over initial_results; acc holds verified_results, the
\* candidates findHomography was called for, and whether an exception
\* left the loop
RECURSIVE VerifyLoop(_, _, _, _)
VerifyLoop(cands, i, outc, acc) ==
    IF i > Len(cands) \/ acc.raised THEN acc
    ELSE LET c == cands[i]
             v == VerifyCandidate(c, outc[c.file_path])
         IN VerifyLoop(cands, i + 1, outc,
               [results |-> IF v.keep
                            THEN Append(acc.results,
                                   [c EXCEPT !.scored = TRUE, !.spatial_score = v.score])
                            ELSE acc.results,
                homography |-> IF v.homography
                               THEN acc.homography \cup {c.file_path}
                               ELSE acc.homography,
                raised |-> v.abort])

\* (mutant) the results are returned in the order they were verified in
SortByScore_Unsorted(rs) == rs

\* verified_results.sort(key=spatial_score, reverse=True): stable, results
\* of equal score keep their order
RECURSIVE SortByScore(_)
SortByScore(rs) ==
    IF rs = <<>> THEN <<>>
    ELSE LET best == CHOOSE i \in 1..Len(rs) :
                        /\ \A j \in 1..Len(rs) : rs[j].spatial_score <= rs[i].spatial_score
                        /\ \A j \in 1..(i - 1) : rs[j].spatial_score < rs[i].spatial_score
         IN <<rs[best]>> \o SortByScore(SubSeq(rs, 1, best - 1) \o
                                        SubSeq(rs, best + 1, Len(rs)))

\* rerank_results_with_spatial_verification for a query image of the given
\* kind, the candidates meeting the outcomes outc
Rerank(kind, outc, initial_results) ==
    IF initial_results = <<>>
    THEN [results |-> <<>>, homography |-> {}, raised |-> FALSE]
    ELSE IF kind # "ok"
    THEN [results |-> initial_results, homography |-> {}, raised |-> FALSE]
    ELSE LET v == VerifyLoop(initial_results, 1, outc,
                     [results |-> <<>>, homography |-> {}, raised |-> FALSE])
         IN IF v.raised THEN [v EXCEPT !.results = <<>>]
            ELSE [v EXCEPT !.results = SortByScore(v.results)]

\* (mutant) an empty filtered answer is final
RetryUnfiltered_Never(f, results) == FALSE

\* if location_filter and not candidates: search again without the filter
RetryUnfiltered(f, results) == f # "" /\ results = <<>>

\* one pass of search_for_matches on the image with the given FAISS order
\* and outcomes: smart_search, the unfiltered retry, the verification
SearchPass(res, kind, order, outc, f) ==
    LET first == SmartSearch(res, kind, order, f, K_RESULTS)
        retried == RetryUnfiltered(f, first.results) /\ ~first.raised
        cand == IF retried THEN SmartSearch(res, kind, order, "", K_RESULTS) ELSE first
        rr == IF cand.results # <<>> /\ ~cand.raised
              THEN Rerank(kind, outc, cand.results)
              ELSE [results |-> <<>>, homography |-> {}, raised |-> FALSE]
    IN [candidates |-> cand.results, retried |-> retried,
        results |-> rr.results,
        best |-> IF rr.results # <<>> THEN rr.results[1].spatial_score ELSE 0,
        raised |-> first.raised \/ cand.raised \/ rr.raised]

\* the second pass when it was not made
NoPass == [candidates |-> <<>>, retried |-> FALSE, results |-> <<>>, best |-> 0,
           raised |-> FALSE]

\* (mutant) an equal mirrored score wins, too
MirrorWins_OnTie(best_mirror, best_normal) == best_mirror >= best_normal

MirrorWins(best_mirror, best_normal) == best_mirror > best_normal

TagMirrored(rs) == [i \in 1..Len(rs) |-> [rs[i] EXCEPT !.is_mirrored = TRUE]]

\* (mutant) the mirrored pass runs whatever the normal pass scored
GoodMatch_Never(best) == FALSE

\* best_score_normal >= MATCH_CONFIDENCE_THRESHOLD: return the normal pass
GoodMatch(best) == best >= MATCH_CONFIDENCE_THRESHOLD

\* (mutant) all results are returned
TopResults_All(rs) == rs

TopResults(rs) == Take(rs, TOP_RESULTS)

\* search_for_matches(query_image_path, sheet_name) for the call q on the
\* resources res; pass: which pass's results are returned, mirror_ran: the
\* second pass was made
SearchForMatches(res, q) ==
    LET f == LocationFilter(q.sheet)
        n == SearchPass(res, q.kind, q.order, q.normal, f)
        m == SearchPass(res, q.kind, q.orderM, q.mirror, f)
        base == [ret |-> TopResults(n.results), pass |-> "normal",
                 mirror_ran |-> FALSE, normal |-> n, mirror |-> NoPass,
                 raised |-> n.raised]
    IN IF n.raised THEN [base EXCEPT !.ret = <<>>]
       ELSE IF GoodMatch(n.best) THEN base
       ELSE IF q.kind = "unreadable" THEN base
       ELSE IF m.raised
       THEN [base EXCEPT !.ret = <<>>, !.mirror_ran = TRUE, !.mirror = m, !.raised = TRUE]
       ELSE IF MirrorWins(m.best, n.best)
       THEN [base EXCEPT !.ret = TopResults(TagMirrored(m.results)),
                         !.pass = "mirror", !.mirror_ran = TRUE, !.mirror = m]
       ELSE [base EXCEPT !.mirror_ran = TRUE, !.mirror = m]

\* ------------------------------------------------- search: calls studied
Fitted == [some |-> TRUE, centers |-> {}, fits |-> 1]
Unfitted == [some |-> TRUE, centers |-> {}, fits |-> 0]
\* GLOBAL_RESOURCES holding an index over the sidecars ix and the metadata
\* of the sidecars mt
Resources(v, ix, mt) ==
    [vocab |-> v, index |-> ix, meta |-> [some |-> TRUE, rows |-> MetaRows(mt)],
     vlad |-> NoRows]
IndexOf(ps) == [some |-> TRUE, rows |-> ps, centers |-> {}]

InjSeqs(S, n) == {q \in [1..n -> S] : \A i, j \in 1..n : i # j => q[i] # q[j]}
SmallPool == {Library[1], Library[2], Library[3]}
SmallIndexes == UNION {InjSeqs(SmallPool, n) : n \in 0..SmallRows}
Orders(n) == {q \in [1..n -> 1..n] : \A i, j \in 1..n : i # j => q[i] # q[j]}

AllOutcomes == {Missing, Unreadable, SingleDescriptor, MatchRaises, Found(3, 3),
                NoMask(4), Found(4, 4), Found(20, 14), Found(20, 15)}
ScoreOutcomes == {Missing, Found(20, 14), Found(20, 15)}
RankOutcomes == {Found(4, 4), Found(20, 14), Found(20, 15)}

Call(kind, sheet, order, orderM, normal, mirror) ==
    [fn |-> "call", kind |-> kind, sheet |-> sheet, order |-> order,
     orderM |-> orderM, normal |-> normal, mirror |-> mirror]

\* a small index, each candidate meeting any outcome of the verification
VerificationCalls ==
    \E ix \in SmallIndexes : \E order \in Orders(Len(ix)) :
    \E o \in [SeqToSet(ix) -> AllOutcomes] :
        /\ mem = Resources(Fitted, IndexOf(ix), ix)
        /\ sq = Call("ok", "", order, order, o, o)

\* a small index searched with filters that equal a state, a location,
\* nothing
FilterCalls ==
    \E ix \in SmallIndexes : \E order \in Orders(Len(ix)) :
    \E sheet \in {"", "KS", "L1", "L2", "X"} :
        /\ mem = Resources(Fitted, IndexOf(ix), ix)
        /\ sq = Call("ok", sheet, order, order,
                     [p \in SeqToSet(ix) |-> Found(20, 15)],
                     [p \in SeqToSet(ix) |-> Found(20, 15)])

\* a small index, the two passes scoring on their own
TwoPassCalls ==
    \E ix \in SmallIndexes : \E order \in Orders(Len(ix)) :
    \E sheet \in {"", "L2", "X"} :
    \E n \in [SeqToSet(ix) -> ScoreOutcomes] :
    \E m \in [SeqToSet(ix) -> ScoreOutcomes] :
        /\ mem = Resources(Fitted, IndexOf(ix), ix)
        /\ sq = Call("ok", sheet, order, Reverse(order), n, m)

\* a large index: one pass scores every candidate alike, the other any way
RankingCalls ==
    LET ix == Take(Library, MaxRows)
        flat == [p \in SeqToSet(ix) |-> Found(4, 4)]
        id == [i \in 1..Len(ix) |-> i]
    IN \E order \in {id, Reverse(id)} : \E sheet \in {"", "MO"} :
       \E o \in [SeqToSet(ix) -> RankOutcomes] : \E varied \in {"normal", "mirror"} :
        /\ mem = Resources(Fitted, IndexOf(ix), ix)
        /\ sq = Call("ok", sheet, order, order,
                     IF varied = "normal" THEN o ELSE flat,
                     IF varied = "normal" THEN flat ELSE o)

\* resources that are missing, unfitted, empty or torn (metadata shorter
\* than the index), and query images without features or unreadable
ResourceCalls ==
    \E v \in {NoVocab, Unfitted, Fitted} :
    \E ix \in SmallIndexes \cup {<<>>} : \E has \in BOOLEAN :
    \E ml \in 0..Len(ix) : \E order \in Orders(Len(ix)) :
    \E kind \in {"ok", "blank", "unreadable"} :
    \E sheet \in {"", " ", "KS", "X"} :
        /\ mem = Resources(v, IF has THEN IndexOf(ix) ELSE NoRows, Take(ix, ml))
        /\ sq = Call(kind, sheet, order, order,
                     [p \in SeqToSet(ix) |-> Found(20, 15)],
                     [p \in SeqToSet(ix) |-> Found(20, 14)])

InitSearch ==
    /\ \/ VerificationCalls \/ FilterCalls \/ TwoPassCalls
       \/ RankingCalls \/ ResourceCalls
    /\ out = NoCall
    /\ corpus = [p \in AllPaths |-> "none"]
    /\ disk = NoDisk
    /\ memGen = NoGen
    /\ phase = "up"
    /\ pc = [t \in Procs |-> "idle"]
    /\ kmeans = [t \in Procs |-> NoVocab]
    /\ fitted = [t \in Procs |-> FALSE]
    /\ rows = [t \in Procs |-> <<>>]
    /\ ret = [t \in Procs |-> "-"]
    /\ arg = [t \in Procs |-> <<>>]
    /\ opid = [t \in Procs |-> 0]
    /\ snap = [t \in Procs |-> NoSnap]
    /\ result = [t \in Procs |-> "-"]
    /\ startDisk = [t \in Procs |-> NoDisk]
    /\ startMem = [t \in Procs |-> NoDisk]
    /\ budget = MaxOps
    /\ RequestsIdle

OtherVars == <<corpus, disk, mem, memGen, phase, pc, kmeans, fitted, rows, ret, arg,
               opid, snap, result, startDisk, startMem, budget, sq, ready,
               requestVars>>

\* smart_search(image, location_filter, k_results=20) on GLOBAL_RESOURCES
CallSmartSearch ==
    /\ sq.fn = "call" /\ out.fn = "-"
    /\ out' = [fn |-> "smart_search",
               val |-> SmartSearch(mem, sq.kind, sq.order, LocationFilter(sq.sheet),
                                   K_RESULTS)]
    /\ UNCHANGED OtherVars

\* rerank_results_with_spatial_verification on what smart_search returns
\* without a filter
CallRerank ==
    /\ sq.fn = "call" /\ out.fn = "-"
    /\ LET given == SmartSearch(mem, sq.kind, sq.order, "", K_RESULTS).results
       IN out' = [fn |-> "rerank", given |-> given,
                  val |-> Rerank(sq.kind, sq.normal, given)]
    /\ UNCHANGED OtherVars

\* TurtleManager.search_for_matches(query_image_path, sheet_name)
CallSearchForMatches ==
    /\ sq.fn = "call" /\ out.fn = "-"
    /\ out' = [fn |-> "search_for_matches", val |-> SearchForMatches(mem, sq)]
    /\ UNCHANGED OtherVars

NextSearch ==
    \/ CallSmartSearch
    \/ CallRerank
    \/ CallSearchForMatches

\* the search functions applied to bounded resources and query images
SpecSearch == InitSearch /\ [][NextSearch]_vars

\* ------------------------------------------------------------------- Next
\* every step but a failing write
Steps ==
    \/ StartupLoaded
    \/ StartupRebuild
    \/ StartupReload
    \/ \E t \in Procs : RebuildVocab(t)
    \/ \E t \in Procs : RebuildDumpVocab(t)
    \/ \E t \in Procs : RebuildEncode(t)
    \/ \E t \in Procs : RebuildSaveVlad(t)
    \/ \E t \in Procs : RebuildDumpMeta(t)
    \/ \E t \in Procs : RebuildWriteIndex(t)
    \/ \E t \in Workers : ReloadVocab(t)
    \/ \E t \in Workers : ReloadIndex(t)
    \/ \E t \in Workers : ReloadMeta(t)
    \/ \E t \in Workers : ReloadVlad(t)
    \/ \E t \in Workers, p \in AllPaths : ApproveSkipped(t, p)
    \/ \E t \in Workers, p \in AllPaths : ApproveError(t, p)
    \/ \E t \in Workers, p \in AllPaths : ApproveCreated(t, p)
    \/ \E t \in Workers : ApproveReturn(t)
    \/ \E t \in Workers : SearchReadVocab(t)
    \/ \E t \in Workers : SearchReadIndex(t)
    \/ \E t \in Workers : SearchReadMeta(t)
    \/ \E t \in Workers : SearchReturn(t)
    \/ \E fail \in SUBSET Artifacts : ClearTrainingData(fail)
    \/ \E keep \in SUBSET AllPaths : ClearOfficialTurtleData(keep)
    \/ Stop

Next ==
    \/ Steps
    \/ \E t \in Procs : RebuildRaise(t)

Spec == Init /\ [][Next]_vars

\* the behaviours in which no write of a rebuild fails
SpecNoWriteFailure == Init /\ [][Steps]_vars


\* ------------------------------- search_for_matches, statement by statement
\* a server that is up with GLOBAL_RESOURCES = res and no rebuild running
Serving(res) ==
    /\ mem = res
    /\ corpus = [p \in AllPaths |-> "none"]
    /\ disk = NoDisk
    /\ memGen = NoGen
    /\ phase = "up"
    /\ pc = [t \in Procs |-> "idle"]
    /\ kmeans = [t \in Procs |-> NoVocab]
    /\ fitted = [t \in Procs |-> FALSE]
    /\ rows = [t \in Procs |-> <<>>]
    /\ ret = [t \in Procs |-> "-"]
    /\ arg = [t \in Procs |-> <<>>]
    /\ opid = [t \in Procs |-> 0]
    /\ snap = [t \in Procs |-> NoSnap]
    /\ result = [t \in Procs |-> "-"]
    /\ startDisk = [t \in Procs |-> NoDisk]
    /\ startMem = [t \in Procs |-> NoDisk]
    /\ budget = MaxOps

\* the index the concurrent queries search
MirrorIndex == <<Library[1], Library[3]>>

\* the locals of one call of search_for_matches for the query image q
\* stored under the file name base; mirrors counts the mirrored passes
Searching(q, base) ==
    [pc |-> "called", q |-> q, base |-> base, normal |-> NoPass,
     cand |-> <<>>, mirror |-> NoPass, pass |-> "normal", ret |-> <<>>,
     raised |-> FALSE, mirrors |-> 0]

\* the queries two request threads are given: the first is a.jpg, the
\* second has the same file name or another
MirrorCalls(base) ==
    {Searching(Call(kind, sheet, <<1, 2>>, orderM,
                    [p \in SeqToSet(MirrorIndex) |-> n],
                    [p \in SeqToSet(MirrorIndex) |-> m]), base) :
        kind \in {"ok", "unreadable"}, sheet \in {"", "X"},
        orderM \in {<<1, 2>>, <<2, 1>>},
        n \in {Found(20, 14), Found(20, 15)}, m \in ScoreOutcomes}

InitMirror ==
    /\ Serving(Resources(Fitted, IndexOf(MirrorIndex), MirrorIndex))
    /\ sq = NoCall /\ out = NoCall
    /\ tmp = [b \in Bases |-> "none"]
    /\ queue = [r \in Reqs |-> NoPacket]
    /\ turtles = [p \in AllPaths |-> NoTurtleData]
    /\ dirs = {DataDir, ReviewQueueDir}
    /\ clock = 0
    /\ ready = TRUE
    /\ hs = [w \in Workers |-> NoRequest]
    /\ \E c1 \in MirrorCalls("a.jpg") : \E b \in Bases : \E c2 \in MirrorCalls(b) :
          sm = [w \in Workers |-> IF w = "w1" THEN c1 ELSE c2]

\* mirror_path = review_queue_dir/TEMP_MIRROR_<filename>: one file per
\* file name, whatever request the image belongs to
MirrorPath(w) == sm[w].base

\* the image a statement of w finds at mirror_path: the mirrored query of
\* the call that wrote the file last, or nothing when the file is not there
AtMirrorPath(w) ==
    LET u == tmp[MirrorPath(w)] IN
    IF u = "none"
    THEN [kind |-> "unreadable", order |-> <<>>, outc |-> <<>>]
    ELSE [kind |-> sm[u].q.kind, order |-> sm[u].q.orderM, outc |-> sm[u].q.mirror]

MirrorFrame ==
    UNCHANGED <<corpus, disk, mem, memGen, phase, pc, kmeans, fitted, rows, ret,
                arg, opid, snap, result, startDisk, startMem, budget, sq, out,
                queue, turtles, dirs, clock, ready, hs>>

\* lines 433-467: the normal pass and the threshold test
NormalPass(w) ==
    /\ sm[w].pc = "called"
    /\ LET q == sm[w].q
           n == SearchPass(mem, q.kind, q.order, q.normal, LocationFilter(q.sheet))
       IN sm' = [sm EXCEPT ![w].normal = n,
                           ![w].ret = IF GoodMatch(n.best) THEN TopResults(n.results)
                                      ELSE <<>>,
                           ![w].pc = IF GoodMatch(n.best) THEN "done" ELSE "mirror"]
    /\ UNCHANGED tmp
    /\ MirrorFrame

\* lines 473-480: cv.imread of the query; an image that cannot be read
\* ends the call with the normal results, any other is flipped and written
\* to mirror_path
WriteMirror(w) ==
    /\ sm[w].pc = "mirror"
    /\ IF sm[w].q.kind = "unreadable"
       THEN /\ sm' = [sm EXCEPT ![w].ret = TopResults(sm[w].normal.results),
                                ![w].pc = "done"]
            /\ UNCHANGED tmp
       ELSE /\ tmp' = [tmp EXCEPT ![MirrorPath(w)] = w]
            /\ sm' = [sm EXCEPT ![w].mirrors = @ + 1, ![w].pc = "msearch"]
    /\ MirrorFrame

\* lines 483-485: smart_search of the file at mirror_path
MirrorSearch(w) ==
    /\ sm[w].pc = "msearch"
    /\ LET img == AtMirrorPath(w)
           f == LocationFilter(sm[w].q.sheet)
           cand == SmartSearch(mem, img.kind, img.order, f, K_RESULTS).results
       IN sm' = [sm EXCEPT ![w].cand = cand,
                           ![w].pc = IF RetryUnfiltered(f, cand) THEN "mretry"
                                     ELSE "mrerank"]
    /\ UNCHANGED tmp
    /\ MirrorFrame

\* lines 486-489: the unfiltered retry of the mirrored search
MirrorRetry(w) ==
    /\ sm[w].pc = "mretry"
    /\ LET img == AtMirrorPath(w)
       IN sm' = [sm EXCEPT ![w].cand =
                               SmartSearch(mem, img.kind, img.order, "", K_RESULTS).results,
                           ![w].pc = "mrerank"]
    /\ UNCHANGED tmp
    /\ MirrorFrame

\* lines 490-511: the verification against the file at mirror_path, the
\* comparison of the best scores and the choice of the return value
MirrorRerank(w) ==
    /\ sm[w].pc = "mrerank"
    /\ LET img == AtMirrorPath(w)
           rs == IF sm[w].cand # <<>>
                 THEN Rerank(img.kind, img.outc, sm[w].cand).results
                 ELSE <<>>
           m == [candidates |-> sm[w].cand, retried |-> FALSE, results |-> rs,
                 best |-> IF rs # <<>> THEN rs[1].spatial_score ELSE 0,
                 raised |-> FALSE]
           wins == MirrorWins(m.best, sm[w].normal.best)
       IN sm' = [sm EXCEPT ![w].mirror = m,
                           ![w].pass = IF wins THEN "mirror" ELSE "normal",
                           ![w].ret = IF wins THEN TopResults(TagMirrored(rs))
                                      ELSE TopResults(sm[w].normal.results),
                           ![w].pc = "finally"]
    /\ UNCHANGED tmp
    /\ MirrorFrame

\* line 515, in the finally block: os.path.exists(mirror_path)
FinallyExists(w) ==
    /\ sm[w].pc = "finally"
    /\ sm' = [sm EXCEPT ![w].pc = IF tmp[MirrorPath(w)] # "none" THEN "remove"
                                  ELSE "done"]
    /\ UNCHANGED tmp
    /\ MirrorFrame

\* line 516: os.remove(mirror_path); on a file that is gone it raises
\* FileNotFoundError, which replaces the return value of the call
FinallyRemove(w) ==
    /\ sm[w].pc = "remove"
    /\ IF tmp[MirrorPath(w)] # "none"
       THEN /\ tmp' = [tmp EXCEPT ![MirrorPath(w)] = "none"]
            /\ sm' = [sm EXCEPT ![w].pc = "done"]
       ELSE /\ UNCHANGED tmp
            /\ sm' = [sm EXCEPT ![w].raised = TRUE, ![w].ret = <<>>, ![w].pc = "done"]
    /\ MirrorFrame

NextMirror ==
    \/ \E w \in Workers : NormalPass(w)
    \/ \E w \in Workers : WriteMirror(w)
    \/ \E w \in Workers : MirrorSearch(w)
    \/ \E w \in Workers : MirrorRetry(w)
    \/ \E w \in Workers : MirrorRerank(w)
    \/ \E w \in Workers : FinallyExists(w)
    \/ \E w \in Workers : FinallyRemove(w)

\* two request threads, each in one call of search_for_matches
SpecMirror == InitMirror /\ [][NextMirror]_vars


\* --------------------------------------------- review queue: the packets
\* the additional images a request can bring: the base name of the temporary
\* file as a string of characters, the type given, whether the file is there
Items ==
    {[src |-> <<"x">>, type |-> "microhabitat", isfile |-> TRUE],
     [src |-> <<"x", " ">>, type |-> "microhabitat", isfile |-> TRUE],
     [src |-> <<"x">>, type |-> "habitat", isfile |-> TRUE],
     [src |-> <<"x">>, type |-> "microhabitat", isfile |-> FALSE]}

\* typ = (item.get('type') or 'other').lower(), 'other' when it is none of
\* the three known types
NormalType(t) == IF t \in {"microhabitat", "condition", "other"} THEN t ELSE "other"

\* "".join(c for c in safe_name if c.isalnum() or c in '._-'), on the part
\* of the name that comes from the source file
Sanitize(name) == SelectSeq(name, LAMBDA c : c \notin {" ", "/", "\\"})

\* safe_name = f"{typ}_{int(time.time())}_{os.path.basename(src)}", sanitized
SafeName(typ, now, src) == [type |-> typ, time |-> now, name |-> Sanitize(src)]

\* the loop of add_additional_images_to_packet over files_with_types: a
\* missing source is skipped, any other is copied to safe_name and listed
RECURSIVE AddItems(_, _, _, _)
AddItems(items, i, pk, now) ==
    IF i > Len(items) THEN pk
    ELSE IF ~items[i].isfile THEN AddItems(items, i + 1, pk, now)
    ELSE LET typ == NormalType(items[i].type)
             safe == SafeName(typ, now, items[i].src)
         IN AddItems(items, i + 1,
                     [pk EXCEPT !.files = @ \cup {safe},
                                !.manifest = Append(@, [filename |-> safe, type |-> typ,
                                                        timestamp |-> now])],
                     now)

\* what the review handlers leave alone
ReviewFrame ==
    UNCHANGED <<memGen, phase, pc, kmeans, fitted, rows, ret, arg, opid, snap,
                result, startDisk, startMem, tmp, sm, ready, hs>>

\* the second of the clock passes
Tick ==
    /\ clock < MaxClock
    /\ clock' = clock + 1
    /\ UNCHANGED <<corpus, disk, mem, budget, sq, out, queue, turtles, dirs>>
    /\ ReviewFrame

\* add_additional_images_to_packet(request_id, files_with_types)
AddAdditionalImagesToPacket(r, items) ==
    /\ phase = "up" /\ budget > 0
    /\ Len(queue[r].manifest) + Len(items) <= MaxManifest
    /\ sq' = [fn |-> "add_additional_images_to_packet", req |-> r,
              before |-> queue[r], added |-> <<>>]
    /\ IF ~queue[r].some
       THEN /\ out' = [fn |-> "add", ok |-> FALSE, why |-> "Request not found", names |-> <<>>]
            /\ UNCHANGED queue
       ELSE /\ queue' = [queue EXCEPT ![r] = AddItems(items, 1, @, clock)]
            /\ out' = [fn |-> "add", ok |-> TRUE, why |-> "OK",
                       names |-> [i \in 1..(Len(queue'[r].manifest) - Len(queue[r].manifest))
                                    |-> queue'[r].manifest[Len(queue[r].manifest) + i].filename]]
    /\ budget' = budget - 1
    /\ UNCHANGED <<corpus, disk, mem, turtles, dirs, clock>>
    /\ ReviewFrame

\* remove_additional_image_from_packet(request_id, filename); added: the
\* names stored by the call before it when that was an add to this packet,
\* before: the packet as that add found it
RemoveAdditionalImageFromPacket(r, filename) ==
    /\ phase = "up" /\ budget > 0
    /\ LET undoes == /\ sq.fn = "add_additional_images_to_packet" /\ sq.req = r
                     /\ out.ok
           new_manifest == SelectSeq(queue[r].manifest,
                                     LAMBDA e : e.filename # filename)
           ok == /\ queue[r].some
                 /\ filename \in queue[r].files
                 /\ Len(new_manifest) # Len(queue[r].manifest)
       IN /\ sq' = [fn |-> "remove_additional_image_from_packet", req |-> r,
                    before |-> IF undoes THEN sq.before ELSE queue[r],
                    added |-> IF undoes THEN out.names ELSE <<>>]
          /\ out' = [fn |-> "remove", ok |-> ok,
                     why |-> IF ~queue[r].some THEN "Request not found"
                             ELSE IF filename \notin queue[r].files THEN "Image not found"
                             ELSE IF ~ok THEN "Image not in manifest" ELSE "None",
                     names |-> <<filename>>]
          /\ queue' = IF ok
                      THEN [queue EXCEPT ![r].files = @ \ {filename},
                                         ![r].manifest = new_manifest]
                      ELSE queue
    /\ budget' = budget - 1
    /\ UNCHANGED <<corpus, disk, mem, turtles, dirs, clock>>
    /\ ReviewFrame

\* ------------------------------------------ review queue: the turtle folders
\* the turtle ids a caller names; T9 has no folder
TurtleIds == {"T1", "T9"}

\* the folder of the turtle whose sidecar path is p exists as soon as
\* _process_single_turtle has made it
FolderExists(c, p) == c[p] # "none"

TurtleDir(p) == SubSeq(p, 1, 4)

\* for root, dirs, files in os.walk(base_dir): the first folder named turtle_id
RECURSIVE WalkForTurtle(_, _, _)
WalkForTurtle(c, turtle_id, i) ==
    IF i > Len(WalkOrder) THEN <<>>
    ELSE IF FolderExists(c, WalkOrder[i]) /\ WalkOrder[i][4] = turtle_id THEN WalkOrder[i]
    ELSE WalkForTurtle(c, turtle_id, i + 1)

\* _get_turtle_folder(turtle_id, location_hint): base_dir/hint/turtle_id if
\* it exists, else the first folder of that name; <<>> is None.  The result
\* is given as the sidecar path of the turtle
GetTurtleFolder(c, turtle_id, hint) ==
    LET possible == {p \in AllPaths : /\ FolderExists(c, p)
                                      /\ TurtleDir(p) = <<"data">> \o hint \o <<turtle_id>>}
    IN IF hint # <<>> /\ possible # {} THEN CHOOSE p \in possible : TRUE
       ELSE WalkForTurtle(c, turtle_id, 1)

\* the sidecar written for an observation copied at second n
LoosePath(p, n) == TurtleDir(p) \o <<"loose_images", n>>
LoosePaths == {LoosePath(p, n) : p \in AllPaths, n \in 0..MaxClock}

\* everything under the data root that an os.walk can meet as a sidecar:
\* the reference sidecars and the .npz files in loose_images
DataRoot(c, t) ==
    [x \in AllPaths \cup LoosePaths |->
        IF x \in AllPaths THEN c[x]
        ELSE IF \E p \in AllPaths : TurtleDir(p) = SubSeq(x, 1, 4) /\ x[6] \in t[p].npz
             THEN "ok" ELSE "none"]

\* the order in which the walk meets them
RECURSIVE RootOrderFrom(_)
RootOrderFrom(i) ==
    IF i > Len(WalkOrder) THEN <<>>
    ELSE [n \in 1..(MaxClock + 1) |-> LoosePath(WalkOrder[i], n - 1)]
         \o <<WalkOrder[i]>> \o RootOrderFrom(i + 1)
RootOrder == RootOrderFrom(1)

WalkRoot(root) == SelectSeq(RootOrder, LAMBDA x : x \in DOMAIN root /\ root[x] \in {"ok", "corrupt"})

\* rebuild_faiss_index_from_folders run from start to end over the data
\* root, no write failing: the four files after it
RebuildFiles(root, d) ==
    LET old == ReusableVocab(d.vocab)
        tr == TrainLoop(root, WalkRoot(root), 1, 0, {}, 0)
        kmeans_vocab == IF old.some THEN old
                        ELSE IF VocabWasFitted(tr)
                        THEN [some |-> TRUE, centers |-> tr.centers, fits |-> tr.fits]
                        ELSE NoVocab
        d1 == IF ~old.some /\ VocabWasFitted(tr) THEN [d EXCEPT !.vocab = kmeans_vocab] ELSE d
        all_vlad == SelectSeq(WalkRoot(root), LAMBDA x : root[x] = "ok")
    IN IF ~kmeans_vocab.some \/ all_vlad = <<>> THEN d1
       ELSE [d1 EXCEPT !.vlad = [some |-> TRUE, rows |-> all_vlad,
                                 centers |-> kmeans_vocab.centers],
                       !.meta = [some |-> TRUE, rows |-> MetaRows(all_vlad)],
                       !.index = [some |-> TRUE, rows |-> all_vlad,
                                  centers |-> kmeans_vocab.centers]]

\* the four loaders of rebuild_index_and_reload
Reload(d) ==
    [vocab |-> load_vocabulary(d), index |-> load_faiss_index(d),
     meta |-> load_metadata(d), vlad |-> load_vlad_array(d)]

Released_Never(find_metadata) == FALSE

\* if find_metadata.get('released_at'): return
Released(find_metadata) == find_metadata.released

\* get_turtles_with_flags: the turtles whose find_metadata.json can be read
\* and has no released_at
GetTurtlesWithFlags(c, t) ==
    {p \in AllPaths : /\ FolderExists(c, p)
                      /\ t[p].meta.file = "ok"
                      /\ ~Released(t[p].meta)}

\* ----------------------------------------- review queue: approve and reject
\* np.savez of the observation's features into loose_images, when the
\* extraction succeeded
WriteTempNpz(t, p, n, sift) == IF sift THEN [t EXCEPT ![p].npz = @ \cup {n}] ELSE t

DeleteTempNpz_Keep(t, p, n) == t

\* if os.path.exists(npz_path): os.remove(npz_path)
DeleteTempNpz(t, p, n) == [t EXCEPT ![p].npz = @ \ {n}]

\* add_observation_to_turtle once the folder p is found: the image is
\* copied as Obs_<n>_<filename>, processed, and the sidecar deleted
AddObservationToTurtle(t, p, n, sift) ==
    DeleteTempNpz(WriteTempNpz([t EXCEPT ![p].loose = @ \cup {n}], p, n, sift), p, n)

\* for f in os.listdir(packet_dir): the first file ending in .jpg, .png or
\* .jpeg
QueryImage(pk) == IF pk.image \in {"q.jpg", "q.png", "q.jpeg"} THEN pk.image ELSE "none"

\* the find_metadata a caller passes: None or a dict with a digital flag
Flagged == [file |-> "ok", flag |-> TRUE, released |-> FALSE]

RebuildAfter_Always(status) == TRUE

\* if status == "created": image_processing.rebuild_index_and_reload
RebuildAfter(status) == status = "created"

\* lines 602-657 of approve_review_packet: how far the call got, and the
\* data root it leaves
ApproveFirstPart(r, upl, match, newp, sift) ==
    LET pk == queue[r]
        Return(why) == [ok |-> FALSE, why |-> why, corpus |-> corpus,
                         turtles |-> turtles, rebuilt |-> FALSE]
        dir == WalkForTurtle(corpus, match, 1)
    IN IF ~pk.some /\ ~upl THEN Return("Request not found")
       ELSE IF pk.some /\ QueryImage(pk) = "none" THEN Return("No image found")
       ELSE IF match # ""
       THEN IF dir = <<>> THEN Return("Could not find folder")
            ELSE [ok |-> TRUE, why |-> "match", corpus |-> corpus,
                  turtles |-> AddObservationToTurtle(turtles, dir, clock, sift),
                  rebuilt |-> FALSE]
       ELSE IF newp # <<>>
       THEN IF HasNpz(corpus, newp)
            THEN [Return("already exists") EXCEPT !.rebuilt = RebuildAfter("skipped")]
            ELSE IF sift
            THEN [ok |-> TRUE, why |-> "created",
                  corpus |-> RegenerateNpz([corpus EXCEPT ![newp] = "ok"]),
                  turtles |-> turtles, rebuilt |-> RebuildAfter("created")]
            ELSE [ok |-> FALSE, why |-> "Failed to process image",
                  corpus |-> [corpus EXCEPT ![newp] = "blank"],
                  turtles |-> turtles, rebuilt |-> RebuildAfter("error")]
       ELSE Return("Either")

\* lines 669-689: the packet's listed images that exist are copied, and the
\* packet's manifest is written as the turtle's manifest
MergeAdditional(td, pk) ==
    [td EXCEPT !.files = @ \cup {pk.manifest[i].filename : i \in
                                    {j \in 1..Len(pk.manifest) :
                                        pk.manifest[j].filename \in pk.files}},
               !.manifest = pk.manifest]

\* approve_review_packet(request_id, match_turtle_id, new_location,
\* new_turtle_id, uploaded_image_path, find_metadata); sift: the feature
\* extraction succeeds; rmfail: shutil.rmtree of the packet raises
ApproveReviewPacket(r, upl, match, newp, fm, sift, rmfail) ==
    /\ phase = "up" /\ budget > 0
    /\ match = "" \/ newp = <<>>
    \* arguments and outcomes the call never looks at are left at one value
    /\ queue[r].some => ~upl
    /\ ~ApproveFirstPart(r, upl, match, newp, TRUE).ok => (sift /\ ~rmfail /\ fm = NoFindMetadata)
    /\ ~queue[r].some => ~rmfail
    /\ LET pk == queue[r]
           first == ApproveFirstPart(r, upl, match, newp, sift)
           target_turtle_id == IF match # "" THEN match ELSE newp[4]
           location_hint == IF newp # <<>> THEN <<newp[2]>> ELSE <<>>
           target_dir == GetTurtleFolder(first.corpus, target_turtle_id, location_hint)
           written == IF target_dir # <<>> /\ fm.file = "ok"
                      THEN [first.turtles EXCEPT ![target_dir].meta = fm]
                      ELSE first.turtles
           merged == IF target_dir # <<>> /\ pk.some
                     THEN [written EXCEPT ![target_dir] = MergeAdditional(@, pk)]
                     ELSE written
       IN /\ sq' = [fn |-> "approve_review_packet", req |-> r, before |-> pk,
                    added |-> <<>>, match |-> match, newp |-> newp, sift |-> sift,
                    target |-> IF first.ok THEN target_dir ELSE <<>>]
          /\ corpus' = first.corpus
          /\ disk' = IF first.rebuilt
                     THEN RebuildFiles(DataRoot(first.corpus, first.turtles), disk)
                     ELSE disk
          /\ mem' = IF first.rebuilt THEN Reload(disk') ELSE mem
          /\ memGen' = IF first.rebuilt THEN [a \in Artifacts |-> budget] ELSE memGen
          /\ IF ~first.ok
             THEN /\ turtles' = first.turtles
                  /\ queue' = queue
                  /\ out' = [fn |-> "approve", ok |-> FALSE, why |-> first.why,
                             names |-> <<>>]
             ELSE /\ turtles' = merged
                  /\ queue' = IF pk.some /\ ~rmfail THEN [queue EXCEPT ![r] = NoPacket]
                              ELSE queue
                  /\ out' = [fn |-> "approve", ok |-> TRUE,
                             why |-> IF pk.some /\ rmfail THEN "cleanup warning"
                                     ELSE first.why,
                             names |-> <<>>]
    /\ budget' = budget - 1
    /\ UNCHANGED <<dirs, clock, phase, pc, kmeans, fitted, rows, ret, arg, opid, snap,
                   result, startDisk, startMem, tmp, sm, ready, hs>>

\* clear_release_flag(turtle_id, location_hint)
ClearReleaseFlag(turtle_id, hint) ==
    /\ phase = "up" /\ budget > 0
    /\ LET turtle_dir == GetTurtleFolder(corpus, turtle_id, hint)
           why == IF turtle_dir = <<>> THEN "Turtle folder not found"
                  ELSE IF turtles[turtle_dir].meta.file = "none" THEN "No find metadata"
                  ELSE IF turtles[turtle_dir].meta.file = "corrupt" THEN "JSONDecodeError"
                  ELSE "None"
       IN /\ sq' = [fn |-> "clear_release_flag", req |-> turtle_id, before |-> NoPacket,
                    added |-> <<>>, target |-> turtle_dir]
          /\ out' = [fn |-> "clear", ok |-> why = "None", why |-> why, names |-> <<>>]
          /\ turtles' = IF why = "None"
                        THEN [turtles EXCEPT ![turtle_dir].meta =
                                 [file |-> "ok", flag |-> FALSE, released |-> TRUE]]
                        ELSE turtles
    /\ budget' = budget - 1
    /\ UNCHANGED <<corpus, disk, mem, queue, dirs, clock>>
    /\ ReviewFrame

\* the request ids reject_review_packet is called with, as relative paths:
\* the upload, an id nobody has, the empty id (Review_Queue itself), its
\* parent, and the directory beside it
RejectIds ==
    {<< <<"R1">> >>, << <<"R9">> >>, <<>>, << <<"..">> >>,
     << <<"..">>, <<"Review_Queue", "_old">> >>}

PacketDir(r) == ReviewQueueDir \o << <<r>> >>

\* os.path.realpath: "." and ".." are resolved
RECURSIVE RealPath(_)
RealPath(path) ==
    IF path = <<>> THEN <<>>
    ELSE LET before == RealPath(SubSeq(path, 1, Len(path) - 1))
             last == path[Len(path)]
         IN IF last = <<".">> THEN before
            ELSE IF last = <<"..">> THEN SubSeq(before, 1, Len(before) - 1)
            ELSE Append(before, last)

\* the path as the string the code compares: the pieces of every component,
\* a separator between two components
RECURSIVE PathString(_)
PathString(path) ==
    IF path = <<>> THEN <<>>
    ELSE IF Len(path) = 1 THEN path[1]
    ELSE PathString(SubSeq(path, 1, Len(path) - 1)) \o <<"/">> \o path[Len(path)]

\* str.startswith
StartsWith(a, b) == Len(b) <= Len(a) /\ SubSeq(a, 1, Len(b)) = b

\* os.path.exists and os.path.isdir for a path made of directories
IsDir(path) ==
    \A k \in 1..Len(path) :
        LET real == RealPath(SubSeq(path, 1, k))
        IN real \in dirs \/ \E r \in Reqs : queue[r].some /\ real = PacketDir(r)

\* reject_review_packet(request_id)
RejectReviewPacket(request_id) ==
    /\ phase = "up" /\ budget > 0
    /\ LET packet_dir == ReviewQueueDir \o request_id
           real_packet == RealPath(packet_dir)
           real_base == RealPath(ReviewQueueDir)
           why == IF ~IsDir(packet_dir) THEN "Request not found"
                  ELSE IF ~StartsWith(PathString(real_packet), PathString(real_base))
                  THEN "Invalid request path"
                  ELSE "Deleted"
       IN /\ sq' = [fn |-> "reject_review_packet", req |-> request_id, before |-> NoPacket,
                    added |-> <<>>, target |-> real_packet]
          /\ out' = [fn |-> "reject", ok |-> why = "Deleted", why |-> why, names |-> <<>>]
          /\ dirs' = IF why = "Deleted" THEN {d \in dirs : ~StartsWith(d, real_packet)} ELSE dirs
          /\ queue' = IF why = "Deleted"
                      THEN [r \in Reqs |-> IF StartsWith(PacketDir(r), real_packet)
                                           THEN NoPacket ELSE queue[r]]
                      ELSE queue
    /\ budget' = budget - 1
    /\ UNCHANGED <<corpus, disk, mem, turtles, clock>>
    /\ ReviewFrame

\* the lists of additional images a request brings
ItemLists ==
    {<<i>> : i \in Items}
    \cup {<<i, j>> : i \in {k \in Items : k.isfile /\ k.src = <<"x">> /\ k.type = "microhabitat"},
                      j \in {k \in Items : k.isfile /\ k.type = "microhabitat"}}

\* the names the stored additional images can have
SafeNames ==
    {SafeName(NormalType(i.type), n, i.src) : i \in Items, n \in 0..MaxClock}

\* the additional image a turtle has from a packet approved earlier
Earlier ==
    [filename |-> SafeName("condition", 0, <<"y">>), type |-> "condition", timestamp |-> 0]

\* a packet as create_review_packet leaves it: the uploaded image and an
\* empty manifest
NewPacket(image) == [some |-> TRUE, image |-> image, manifest |-> <<>>, files |-> {}]

\* the server is up over a data root with some turtles, some with a flag in
\* their find_metadata.json; uploads wait in the review queue
InitReview ==
    /\ corpus \in [AllPaths -> {"none", "ok"}]
    /\ disk = RebuildFiles(DataRoot(corpus, [p \in AllPaths |-> NoTurtleData]), NoDisk)
    /\ mem = Reload(disk)
    /\ memGen = NoGen
    /\ phase = "up"
    /\ pc = [t \in Procs |-> "idle"]
    /\ kmeans = [t \in Procs |-> NoVocab]
    /\ fitted = [t \in Procs |-> FALSE]
    /\ rows = [t \in Procs |-> <<>>]
    /\ ret = [t \in Procs |-> "-"]
    /\ arg = [t \in Procs |-> <<>>]
    /\ opid = [t \in Procs |-> 0]
    /\ snap = [t \in Procs |-> NoSnap]
    /\ result = [t \in Procs |-> "-"]
    /\ startDisk = [t \in Procs |-> NoDisk]
    /\ startMem = [t \in Procs |-> NoDisk]
    /\ budget = MaxCalls
    /\ sq = NoCall /\ out = NoCall
    /\ tmp = [b \in Bases |-> "none"]
    /\ sm = [w \in Workers |-> NoSearch]
    /\ queue \in [Reqs -> {NoPacket, NewPacket("q.jpg"), NewPacket("q.gif")}]
    /\ \E flagged \in SUBSET {p \in {P1} : FolderExists(corpus, p)} :
       \E approved \in SUBSET {p \in {P1} : FolderExists(corpus, p)} :
          turtles = [p \in AllPaths |->
                        [NoTurtleData EXCEPT
                            !.meta = IF p \in flagged THEN Flagged ELSE @,
                            !.manifest = IF p \in approved THEN <<Earlier>> ELSE @,
                            !.files = IF p \in approved THEN {Earlier.filename} ELSE @]]
    /\ dirs \in {{DataDir, ReviewQueueDir}, {DataDir, ReviewQueueDir, SiblingDir}}
    /\ clock = 0
    /\ ready = TRUE
    /\ hs = [w \in Workers |-> NoRequest]

NextReview ==
    \/ Tick
    \/ \E r \in Reqs : \E items \in ItemLists : AddAdditionalImagesToPacket(r, items)
    \/ \E r \in Reqs : \E filename \in SafeNames : RemoveAdditionalImageFromPacket(r, filename)
    \/ \E r \in Reqs : \E upl, sift, rmfail \in BOOLEAN :
       \E match \in TurtleIds \cup {""} : \E newp \in AllPaths \cup {<<>>} :
       \E fm \in {NoFindMetadata, Flagged} :
          ApproveReviewPacket(r, upl, match, newp, fm, sift, rmfail)
    \/ \E turtle_id \in TurtleIds : \E hint \in {<<>>, <<"KS", "L1">>} :
          ClearReleaseFlag(turtle_id, hint)
    \/ \E request_id \in RejectIds : RejectReviewPacket(request_id)

SpecReview == InitReview /\ [][NextReview]_vars

\* ------------------------------------------------------ manager readiness
\* the routes whose handlers are followed: upload_photo and approve_review
Routes == {"upload", "review"}

InitializationOver_Always(ph) == TRUE

\* manager_ready.set() stands after the assignment manager = TurtleManager()
\* and in the except branch: the initialisation has ended one way or the other
InitializationOver(ph) == ph \in {"up", "failed"}

\* the status a handler answers with when manager is None
NoneStatus(route) == IF route = "upload" THEN "503" ELSE "500"

\* the server has started its background thread: manager is None,
\* manager_ready is clear
InitReady ==
    /\ corpus \in [AllPaths -> {"none", "ok"}]
    /\ disk = NoDisk
    /\ mem = NoDisk
    /\ memGen = NoGen
    /\ phase = "starting"
    /\ pc = [t \in Procs |-> "idle"]
    /\ kmeans = [t \in Procs |-> NoVocab]
    /\ fitted = [t \in Procs |-> FALSE]
    /\ rows = [t \in Procs |-> <<>>]
    /\ ret = [t \in Procs |-> "-"]
    /\ arg = [t \in Procs |-> <<>>]
    /\ opid = [t \in Procs |-> 0]
    /\ snap = [t \in Procs |-> NoSnap]
    /\ result = [t \in Procs |-> "-"]
    /\ startDisk = [t \in Procs |-> NoDisk]
    /\ startMem = [t \in Procs |-> NoDisk]
    /\ budget = MaxOps
    /\ sq = NoCall /\ out = NoCall
    /\ RequestsIdle

ReadyFrame ==
    UNCHANGED <<corpus, disk, mem, memGen, pc, kmeans, fitted, rows, ret, arg, opid,
                snap, result, startDisk, startMem, sq, out, tmp, sm, queue, turtles,
                dirs, clock>>

\* manager = TurtleManager() returns
ManagerAssigned ==
    /\ phase = "starting"
    /\ phase' = "up"
    /\ UNCHANGED <<ready, hs, budget>>
    /\ ReadyFrame

\* TurtleManager() raises: manager stays None
ManagerRaises ==
    /\ phase = "starting"
    /\ phase' = "failed"
    /\ UNCHANGED <<ready, hs, budget>>
    /\ ReadyFrame

\* manager_ready.set()
SetManagerReady ==
    /\ ~ready /\ InitializationOver(phase)
    /\ ready' = TRUE
    /\ UNCHANGED <<phase, hs, budget>>
    /\ ReadyFrame

\* a request reaches the handler of the route
RequestArrives(w, route) ==
    /\ hs[w].pc = "idle" /\ budget > 0
    /\ hs' = [hs EXCEPT ![w] = [pc |-> "wait", route |-> route, resp |-> "-",
                                waited |-> "-"]]
    /\ budget' = budget - 1
    /\ UNCHANGED <<phase, ready>>
    /\ ReadyFrame

\* manager_ready.wait(timeout=30) returns True
WaitReturns(w) ==
    /\ hs[w].pc = "wait" /\ ready
    /\ hs' = [hs EXCEPT ![w].pc = "check", ![w].waited = "set"]
    /\ UNCHANGED <<phase, ready, budget>>
    /\ ReadyFrame

\* the timeout passes with manager_ready clear: the handler answers 503
WaitTimesOut(w) ==
    /\ hs[w].pc = "wait" /\ ~ready
    /\ hs' = [hs EXCEPT ![w].pc = "idle", ![w].waited = "timeout", ![w].resp = "503"]
    /\ UNCHANGED <<phase, ready, budget>>
    /\ ReadyFrame

\* if manager_service.manager is None: the handler answers with an error
\* status; else it goes on to the call
CheckManager(w) ==
    /\ hs[w].pc = "check"
    /\ hs' = IF phase = "up"
             THEN [hs EXCEPT ![w].pc = "call"]
             ELSE [hs EXCEPT ![w].pc = "idle", ![w].resp = NoneStatus(hs[w].route)]
    /\ UNCHANGED <<phase, ready, budget>>
    /\ ReadyFrame

\* manager_service.manager.<method>(...): on None the attribute access
\* raises
CallManager(w) ==
    /\ hs[w].pc = "call"
    /\ hs' = [hs EXCEPT ![w].pc = "idle",
                        ![w].resp = IF phase = "up" THEN "200" ELSE "crash"]
    /\ UNCHANGED <<phase, ready, budget>>
    /\ ReadyFrame

NextReady ==
    \/ ManagerAssigned
    \/ ManagerRaises
    \/ SetManagerReady
    \/ \E w \in Workers : \E route \in Routes : RequestArrives(w, route)
    \/ \E w \in Workers : WaitReturns(w)
    \/ \E w \in Workers : WaitTimesOut(w)
    \/ \E w \in Workers : CheckManager(w)
    \/ \E w \in Workers : CallManager(w)

SpecReady == InitReady /\ [][NextReady]_vars

\* ================================================================= claims

\* what is on disk is one aligned set: the metadata describes the rows of
\* the vector matrix, which are the rows of the index
AlignedOnDisk ==
    /\ disk.meta.rows = MetaRows(disk.vlad.rows)
    /\ disk.index.rows = disk.vlad.rows

\* C1: a search never observes a torn combination: the vocabulary, index
\* and metadata it has read from GLOBAL_RESOURCES were all assigned by the
\* same call (one startup load or one rebuild_index_and_reload).
C1_NoTornRead ==
    \A t \in Workers :
        pc[t] = "s_run" => snap[t].gv = snap[t].gi /\ snap[t].gi = snap[t].gm

\* C2: rebuilds are serialized: at most one execution of
\* rebuild_faiss_index_from_folders is in progress at any time.
C2_RebuildsSerialized ==
    Cardinality({t \in Procs : InRebuild(t)}) <= 1

\* C3: in every on-disk state, when a vocabulary file and an index file
\* both exist, the index was encoded with exactly that vocabulary.
C3_IndexEncodedWithVocab ==
    (disk.vocab.some /\ disk.index.some) => disk.index.centers = disk.vocab.centers

\* C4: the vocabulary file on disk, if present, holds a model on which at
\* least one partial_fit was applied, and a rebuild that found no usable
\* descriptor batch is never at the point of writing the vocabulary file.
C4_PersistedImpliesFitted ==
    /\ disk.vocab.some => disk.vocab.fits >= 1
    /\ \A t \in Procs : pc[t] = "rb_dump" => fitted[t] /\ kmeans[t].fits >= 1

\* C4 witness: the startup rebuild ran over a corpus whose only sidecars are
\* corrupt, fitted nothing, returned None, and no vocabulary file exists.
C4_Witness ==
    /\ pc["init"] = "st_reload" /\ ret["init"] = "none"
    /\ ~fitted["init"] /\ ~kmeans["init"].some
    /\ \E p \in AllPaths : corpus[p] = "corrupt"
    /\ ~disk.vocab.some

\* C5: after any rebuild (none in progress, one has returned its result)
\* the persisted metadata entry i describes the sidecar behind row i of the
\* persisted vector matrix and of the index, and the lists have equal length.
C5_AlignedAfterRebuild ==
    ((\A t \in Procs : ~InRebuild(t)) /\ (\E t \in Procs : ret[t] = "ok"))
        => AlignedOnDisk

\* C6: a rebuild that failed or produced no usable result leaves the four
\* persisted artifacts as they were when it started, and once its caller is
\* through with it GLOBAL_RESOURCES is as it was, too.
C6_FailedRebuildChangesNothing ==
    \A t \in Procs :
        ret[t] \in {"none", "raised"} =>
            /\ disk = startDisk[t]
            /\ pc[t] \in {"ap_done", "idle"} => mem = startMem[t]

\* C7: at startup a rebuild is triggered whenever any one of the four
\* artifacts is absent: the server comes up without a rebuild only when all
\* four files exist.
C7_StartupRebuildsIfAnyMissing ==
    [][(phase = "down" /\ phase' = "up") =>
        (disk.vocab.some /\ disk.index.some /\ disk.meta.some /\ disk.vlad.some)]_vars

\* C8: when approve_review_packet has created a new turtle and returns
\* success, the in-memory index and metadata hold an entry whose site_id is
\* the new turtle id.
C8_NewTurtleSearchable ==
    \A t \in Workers :
        (pc[t] = "ap_done" /\ result[t] = "created") =>
            \E i \in 1..Len(mem.meta.rows) :
                /\ mem.meta.rows[i].site_id = MetaEntry(arg[t]).site_id
                /\ i <= Len(mem.index.rows)
                /\ mem.index.rows[i] = arg[t]

\* C9 as stated: every rebuild that completes successfully fitted its
\* vocabulary during that same rebuild.
C9_AlwaysRetrains ==
    \A t \in Procs : ret[t] = "ok" => fitted[t]

\* C9 amended: the step of a rebuild that settles its vocabulary takes the
\* persisted vocabulary as it is, fitting nothing, when the file holds
\* cluster centers; only otherwise does it fit a vocabulary, over the
\* usable sidecars present at that time.
C9_RetrainsOnlyWithoutPersisted ==
    [][\A t \in Procs :
        (pc[t] = "rb_vocab" /\ pc'[t] \notin {"rb_vocab", "idle"}) =>
            IF disk.vocab.some /\ disk.vocab.fits >= 1
            THEN ~fitted'[t] /\ kmeans'[t] = disk.vocab /\ pc'[t] = "rb_encode"
            ELSE /\ fitted'[t] = kmeans'[t].some
                 /\ kmeans'[t].centers = {p \in AllPaths : corpus'[p] = "ok"}]_vars

\* C9 witness: a rebuild completed successfully with a vocabulary it did
\* not fit itself.
C9_Witness ==
    \E t \in Procs : ret[t] = "ok" /\ ~fitted[t] /\ kmeans[t].some

\* C10: after clear_training_data returns none of the four artifact files
\* exists, also when one deletion fails.
C10_ClearDeletesAllFour ==
    [][(phase = "down" /\ phase' = "down" /\ budget' # budget) => disk' = NoDisk]_vars

\* no reference image lies in the data directory
NoReferenceImages(c) == \A p \in AllPaths : c[p] = "none"

\* every smart_search on the resources res returns the empty list
SmartSearchesEmpty(res) ==
    \A order \in Orders(Len(res.index.rows)) : \A f \in {"", "KS", "L1"} :
        LET r == SmartSearch(res, "ok", order, f, K_RESULTS)
        IN r.results = <<>> /\ ~r.raised

\* every search_for_matches on the resources res, the candidates' sidecars
\* being those of the corpus c, returns the empty list
MatchSearchesEmpty(res, c) ==
    LET o == [p \in AllPaths |-> IF HasNpz(c, p) THEN Found(20, 15) ELSE Missing]
    IN \A order \in Orders(Len(res.index.rows)) : \A sheet \in {"", "KS", "L1"} :
       \A kind \in {"ok", "blank", "unreadable"} :
           LET r == SearchForMatches(res, Call(kind, sheet, order, order, o, o))
           IN r.ret = <<>> /\ ~r.raised

\* C11: when the vocabulary is absent or unfitted or the index is absent
\* or has zero rows, smart_search returns the empty list without encoding
\* the query, without the nearest-neighbour search and without raising.
C11_SearchPrecondition ==
    (/\ out.fn = "smart_search"
     /\ \/ ~mem.vocab.some \/ mem.vocab.fits = 0
        \/ ~mem.index.some \/ Len(mem.index.rows) = 0)
    => /\ out.val.results = <<>>
       /\ ~out.val.encoded /\ ~out.val.searched /\ ~out.val.raised

\* C11 witness: smart_search has returned for a query image with features
\* on an unfitted vocabulary beside an index with rows.
C11_Witness ==
    /\ out.fn = "smart_search" /\ sq.kind = "ok"
    /\ mem.vocab.some /\ mem.vocab.fits = 0
    /\ mem.index.some /\ Len(mem.index.rows) > 0

\* C12: a rebuild that ends while no reference image is present returns
\* None; when the startup that ran it has reloaded, every smart_search
\* returns the empty list without raising, and so it stays while the server
\* is up and no reference image is added; and search_for_matches returns
\* the empty list whenever the server is up and no reference image is
\* present.
C12_EmptyCorpusRebuild ==
    [][/\ \A t \in Procs :
            (InRebuild(t) /\ pc'[t] = AfterRebuild(t) /\ NoReferenceImages(corpus'))
                => ret'[t] = "none"
       /\ (pc["init"] = "st_reload" /\ phase' = "up" /\ NoReferenceImages(corpus))
            => SmartSearchesEmpty(mem')
       /\ (phase = "up" /\ phase' = "up" /\ NoReferenceImages(corpus'))
            => mem' = mem
       /\ (phase' = "up" /\ NoReferenceImages(corpus'))
            => MatchSearchesEmpty(mem', corpus')]_vars

\* C12 witness: the startup rebuild has returned None over a corpus without
\* reference images while the index of an earlier corpus is still on disk.
C12_Witness ==
    /\ pc["init"] = "st_reload" /\ ret["init"] = "none"
    /\ NoReferenceImages(corpus)
    /\ disk.index.some /\ Len(disk.index.rows) > 0

NoDuplicateSites(rs) ==
    \A i, j \in 1..Len(rs) : i # j => rs[i].site_id # rs[j].site_id

\* rank i of the FAISS answer is a row with a metadata entry that passes
\* the filter f
Eligible(res, order, f, i) ==
    /\ order[i] <= Len(res.meta.rows)
    /\ f = "" \/ res.meta.rows[order[i]].state = f
              \/ res.meta.rows[order[i]].location = f

\* r is the nearest eligible row of its turtle
IsClosestOfSite(res, order, f, r) ==
    /\ r.distance \in 1..Len(order)
    /\ Eligible(res, order, f, r.distance)
    /\ res.meta.rows[order[r.distance]].file_path = r.file_path
    /\ res.meta.rows[order[r.distance]].site_id = r.site_id
    /\ \A j \in 1..(r.distance - 1) :
           Eligible(res, order, f, j) => res.meta.rows[order[j]].site_id # r.site_id

\* the filter a pass ended up with
PassFilter(pass) == IF pass.retried THEN "" ELSE LocationFilter(sq.sheet)

\* C13: the list returned by smart_search and by search_for_matches (the
\* filter fallback and the mirrored pass included) never holds two results
\* with the same site_id, and the result kept for a turtle is the nearest
\* of its rows among those that have a metadata entry and pass the filter
\* in effect.
C13_Dedup ==
    /\ out.fn = "smart_search" =>
          /\ NoDuplicateSites(out.val.results)
          /\ \A i \in 1..Len(out.val.results) :
                 IsClosestOfSite(mem, sq.order, LocationFilter(sq.sheet),
                                 out.val.results[i])
    /\ out.fn = "search_for_matches" =>
          /\ NoDuplicateSites(out.val.ret)
          /\ NoDuplicateSites(out.val.normal.candidates)
          /\ NoDuplicateSites(out.val.mirror.candidates)
          /\ \A i \in 1..Len(out.val.ret) :
                 IF out.val.pass = "mirror"
                 THEN IsClosestOfSite(mem, sq.orderM, PassFilter(out.val.mirror),
                                      out.val.ret[i])
                 ELSE IsClosestOfSite(mem, sq.order, PassFilter(out.val.normal),
                                      out.val.ret[i])

\* C13 witness: search_for_matches has returned the mirrored pass after the
\* unfiltered retry, on an index holding two sidecars of turtle id T1.
C13_Witness ==
    /\ out.fn = "search_for_matches"
    /\ out.val.pass = "mirror" /\ out.val.mirror.retried
    /\ {Library[1], Library[2]} \subseteq SeqToSet(mem.index.rows)
    /\ \E i \in 1..Len(out.val.ret) : out.val.ret[i].site_id = "T1"

\* no metadata entry has the location or the state f
MatchesNoEntry(res, f) ==
    \A i \in 1..Len(res.meta.rows) :
        res.meta.rows[i].state # f /\ res.meta.rows[i].location # f

\* C14: search_for_matches with a filter that matches no reference entry's
\* location or state returns what search_for_matches without a filter
\* returns; and in both passes a non-empty filter that leaves no candidate
\* is retried without the filter.
C14_FilterFallback ==
    out.fn = "search_for_matches" =>
       LET f == LocationFilter(sq.sheet)
           unfiltered == SearchForMatches(mem, [sq EXCEPT !.sheet = ""])
           Retried(pass, order) ==
               (f # "" /\ SmartSearch(mem, sq.kind, order, f, K_RESULTS).results = <<>>)
               => pass.candidates =
                      SmartSearch(mem, sq.kind, order, "", K_RESULTS).results
       IN /\ (f # "" /\ MatchesNoEntry(mem, f)) =>
                 /\ out.val.ret = unfiltered.ret
                 /\ out.val.pass = unfiltered.pass
          /\ Retried(out.val.normal, sq.order)
          /\ out.val.mirror_ran => Retried(out.val.mirror, sq.orderM)

\* C14 witness: search_for_matches has returned candidates for a filter
\* that matches no entry.
C14_Witness ==
    /\ out.fn = "search_for_matches"
    /\ sq.sheet = "X" /\ MatchesNoEntry(mem, "X")
    /\ out.val.ret # <<>>

\* C15: with a location filter F every result of smart_search comes from a
\* metadata entry whose state or whose location equals F, and every turtle
\* with an entry matching on one of the two fields is among the results
\* (fewer than k_results turtles match).
C15_FilterBothFields ==
    (out.fn = "smart_search" /\ LocationFilter(sq.sheet) # "" /\ out.val.searched) =>
       LET f == LocationFilter(sq.sheet)
           Matches(e) == e.state = f \/ e.location = f
       IN /\ \A i \in 1..Len(out.val.results) :
                 \E j \in 1..Len(mem.meta.rows) :
                     /\ mem.meta.rows[j].file_path = out.val.results[i].file_path
                     /\ Matches(mem.meta.rows[j])
          /\ Len(out.val.results) < K_RESULTS =>
                 \A j \in 1..Len(mem.meta.rows) :
                     (j <= Len(mem.index.rows) /\ Matches(mem.meta.rows[j])) =>
                         \E i \in 1..Len(out.val.results) :
                             out.val.results[i].site_id = mem.meta.rows[j].site_id

\* C15 witness: smart_search has returned a result for a filter that equals
\* the location of an entry and not its state.
C15_Witness ==
    /\ out.fn = "smart_search" /\ sq.sheet = "L1"
    /\ \E i \in 1..Len(out.val.results) : out.val.results[i].location = "L1"

\* C16 as stated: the mirrored pass runs exactly when the best spatial
\* score of the normal pass is below 15 (no candidates counting as 0).
C16_MirrorIffLowScore ==
    out.fn = "search_for_matches" =>
        (out.val.mirror_ran <=> out.val.normal.best < MATCH_CONFIDENCE_THRESHOLD)

\* C16 amended: the mirrored pass runs exactly when the best spatial score
\* of the normal pass is below 15 and the query image can be read; with a
\* query image that cannot be read the (empty) normal results are returned
\* without a mirrored search.
C16_MirrorIffLowScoreAndReadable ==
    out.fn = "search_for_matches" =>
        /\ out.val.mirror_ran <=>
              (out.val.normal.best < MATCH_CONFIDENCE_THRESHOLD
               /\ sq.kind # "unreadable")
        /\ ~out.val.mirror_ran =>
              (out.val.pass = "normal" /\ out.val.ret = Take(out.val.normal.results, 5))
        /\ sq.kind = "unreadable" => out.val.ret = <<>>

\* C16 witness: the mirrored pass was made after a normal pass whose best
\* score is 14.
C16_Witness ==
    /\ out.fn = "search_for_matches"
    /\ out.val.mirror_ran /\ out.val.normal.best = 14

\* C17: when both passes ran, the mirrored results are returned, every one
\* tagged is_mirrored, if the mirrored best score is strictly higher than
\* the normal best score; otherwise the normal results, none of them tagged.
C17_HigherPassWins ==
    (out.fn = "search_for_matches" /\ out.val.mirror_ran) =>
        LET Untagged(rs) == [i \in 1..Len(rs) |-> [rs[i] EXCEPT !.is_mirrored = FALSE]]
        IN IF out.val.mirror.best > out.val.normal.best
           THEN /\ out.val.pass = "mirror"
                /\ \A i \in 1..Len(out.val.ret) : out.val.ret[i].is_mirrored
                /\ Untagged(out.val.ret) = Take(out.val.mirror.results, 5)
           ELSE /\ out.val.pass = "normal"
                /\ \A i \in 1..Len(out.val.ret) : ~out.val.ret[i].is_mirrored
                /\ out.val.ret = Take(out.val.normal.results, 5)

\* C17 witness: both passes ran and scored the same, above 0.
C17_Witness ==
    /\ out.fn = "search_for_matches" /\ out.val.mirror_ran
    /\ out.val.mirror.best = 14 /\ out.val.normal.best = 14

NonIncreasing(rs) ==
    \A i \in 1..(Len(rs) - 1) : rs[i].spatial_score >= rs[i + 1].spatial_score

\* the pass whose results search_for_matches returned
ChosenPass == IF out.val.pass = "mirror" THEN out.val.mirror ELSE out.val.normal

\* C18: search_for_matches returns at most 5 results, in non-increasing
\* order of spatial score; they are verified candidates of the chosen pass,
\* as many as there are up to 5, and no verified candidate left out scores
\* higher than a returned one.
C18_TopFive ==
    out.fn = "search_for_matches" =>
        LET all == ChosenPass.results
            Paths(rs) == {rs[i].file_path : i \in 1..Len(rs)}
        IN /\ Len(out.val.ret) <= 5
           /\ Len(out.val.ret) = Min(5, Len(all))
           /\ NonIncreasing(out.val.ret)
           /\ \A i \in 1..Len(out.val.ret) : out.val.ret[i].scored
           /\ Paths(out.val.ret) \subseteq Paths(all)
           /\ Cardinality(Paths(out.val.ret)) = Len(out.val.ret)
           /\ \A j \in 1..Len(all) :
                  all[j].file_path \notin Paths(out.val.ret) =>
                      \A i \in 1..Len(out.val.ret) :
                          out.val.ret[i].spatial_score >= all[j].spatial_score

\* C18 witness: five results of different scores were returned out of six
\* verified candidates.
C18_Witness ==
    /\ out.fn = "search_for_matches"
    /\ Len(out.val.ret) = 5 /\ Len(ChosenPass.results) >= 6
    /\ out.val.ret[1].spatial_score > out.val.ret[5].spatial_score

\* the outcome met by the candidate c of the call to the verification
GivenOutcome(c) == sq.normal[c.file_path]

\* C19: in the spatial verification of a query image that has descriptors
\* (the only verification search_for_matches makes: it verifies what the
\* same image retrieved), a candidate with fewer than 4 matches
\* surviving the ratio test, or with fewer than 2 stored descriptors, gets
\* spatial score 0 and findHomography is not called for it; findHomography
\* is called only with 4 or more surviving matches.
C19_HomographyGuard ==
    (out.fn = "rerank" /\ sq.kind = "ok") =>
        /\ \A i \in 1..Len(out.given) :
              LET c == out.given[i]
                  o == GivenOutcome(c)
              IN (o.file = "single" \/ (o.file = "ok" /\ ~o.raises /\ o.good < 4)) =>
                    /\ c.file_path \notin out.val.homography
                    /\ \E k \in 1..Len(out.val.results) :
                          /\ out.val.results[k].file_path = c.file_path
                          /\ out.val.results[k].spatial_score = 0
        /\ \A i \in 1..Len(out.given) :
              out.given[i].file_path \in out.val.homography =>
                  GivenOutcome(out.given[i]).good >= 4

\* C19 witness: a candidate with 3 surviving matches was verified beside a
\* candidate findHomography was called for.
C19_Witness ==
    /\ out.fn = "rerank"
    /\ \E i \in 1..Len(out.given) : GivenOutcome(out.given[i]) = Found(3, 3)
    /\ out.val.homography # {}

\* reading or matching the candidate's sidecar fails
Fails(o) == o.file \in {"missing", "unreadable"} \/ (o.file = "ok" /\ o.raises)

\* C20: in the spatial verification of a query image that has descriptors,
\* when reading or matching one candidate's sidecar fails, only that
\* candidate is dropped: every other candidate is scored and returned, in
\* non-increasing order of score, and no exception reaches the caller.
C20_FailureIsolation ==
    (out.fn = "rerank" /\ sq.kind = "ok") =>
        /\ ~out.val.raised
        /\ {out.val.results[k].file_path : k \in 1..Len(out.val.results)} =
              {out.given[i].file_path : i \in
                  {i \in 1..Len(out.given) : ~Fails(GivenOutcome(out.given[i]))}}
        /\ Len(out.val.results) =
              Cardinality({i \in 1..Len(out.given) : ~Fails(GivenOutcome(out.given[i]))})
        /\ \A k \in 1..Len(out.val.results) : out.val.results[k].scored
        /\ NonIncreasing(out.val.results)

\* C20 witness: matching one candidate raised and another candidate was
\* returned with its score.
C20_Witness ==
    /\ out.fn = "rerank"
    /\ \E i \in 1..Len(out.given) : GivenOutcome(out.given[i]) = MatchRaises
    /\ \E k \in 1..Len(out.val.results) : out.val.results[k].spatial_score > 0

\* the call of thread w has returned or raised
Done(w) == sm[w].pc = "done"

\* what the call of thread w returns when no other call runs beside it
Alone(w) == SearchForMatches(mem, sm[w].q)

\* C21 (termination in Done with a result list): a call of
\* search_for_matches that has ended has returned a list; no exception has
\* reached its caller.
C21_EndsWithResultList ==
    \A w \in Workers : Done(w) => ~sm[w].raised

\* the rest of the state machine holds: a call makes at most one mirrored
\* pass, and after it no further search
MirrorPassAtMostOnce ==
    \A w \in Workers : sm[w].pc # "idle" => sm[w].mirrors <= 1

\* C22: a call of search_for_matches running beside another returns what
\* it returns when run alone.
C22_SameAsAlone ==
    \A w \in Workers :
        (Done(w) /\ ~sm[w].raised) => sm[w].ret = Alone(w).ret

\* two queries of different file names do not interfere
SameAsAloneOtherNames ==
    sm["w1"].pc # "idle" /\ sm["w1"].base # sm["w2"].base =>
        \A w \in Workers : Done(w) => (~sm[w].raised /\ sm[w].ret = Alone(w).ret)

\* ------------------------------------------------------------------- C23
\* C23: when remove_additional_image_from_packet removes, by its stored
\* filename, an image that the call of add_additional_images_to_packet just
\* before it added, then (a) if that add stored this one image only, the
\* packet's manifest entries and files are those from before the add, and
\* (b) every other image of that add is still listed and still present
C23_AddRemoveRoundTrip ==
    (/\ sq.fn = "remove_additional_image_from_packet" /\ out.ok
     /\ out.names[1] \in SeqToSet(sq.added))
    => LET pk == queue[sq.req]
           f == out.names[1]
           first == CHOOSE i \in 1..Len(sq.added) :
                       /\ sq.added[i] = f
                       /\ \A j \in 1..(i - 1) : sq.added[j] # f
           others == {i \in 1..Len(sq.added) : i # first}
       IN /\ sq.added = <<f>>
             => /\ SeqToSet(pk.manifest) = SeqToSet(sq.before.manifest)
                /\ pk.files = sq.before.files
          /\ \A i \in others :
                /\ sq.added[i] \in pk.files
                /\ \E j \in 1..Len(pk.manifest) : pk.manifest[j].filename = sq.added[i]


\* ------------------------------------------------------------------- C24
\* C24: after approve_review_packet has returned success for a call with
\* match_turtle_id and a packet that was in the review queue, every image
\* listed in that packet's manifest is in the matched turtle's
\* additional_images folder and the packet is no longer in the queue
C24_ApprovedPacketMerged ==
    (/\ sq.fn = "approve_review_packet" /\ out.ok
     /\ sq.match # "" /\ sq.before.some)
    => /\ \A i \in 1..Len(sq.before.manifest) :
             sq.before.manifest[i].filename \in turtles[sq.target].files
       /\ ~queue[sq.req].some

\* the images are merged whenever such a call returns success
ApprovedImagesPresent ==
    (/\ sq.fn = "approve_review_packet" /\ out.ok
     /\ sq.match # "" /\ sq.before.some)
    => \A i \in 1..Len(sq.before.manifest) :
          sq.before.manifest[i].filename \in turtles[sq.target].files


\* ------------------------------------------------------------------- C30
\* C30: an approval that returns success leaves the target turtle's
\* additional_images manifest with every entry it had before the call
\* (same filename, type and timestamp) and with the packet's entries, and
\* every entry of it names a file of the folder
C30_ApprovalKeepsTurtleImages ==
    [][(/\ budget' = budget - 1
        /\ sq'.fn = "approve_review_packet" /\ out'.ok /\ sq'.target # <<>>)
       => LET was == turtles[sq'.target].manifest
              is == turtles'[sq'.target].manifest
          IN /\ SeqToSet(was) \subseteq SeqToSet(is)
             /\ SeqToSet(sq'.before.manifest) \subseteq SeqToSet(is)
             /\ \A i \in 1..Len(is) : is[i].filename \in turtles'[sq'.target].files]_vars


\* ------------------------------------------------------------------- C26
\* C26: a call of approve_review_packet that returns failure leaves the
\* review queue as it was, runs no rebuild, and leaves the four persisted
\* artifacts and GLOBAL_RESOURCES unchanged
C26_FailedApprovalKeepsState ==
    [][(/\ budget' = budget - 1
        /\ sq'.fn = "approve_review_packet" /\ ~out'.ok)
       => /\ queue' = queue
          /\ memGen' = memGen
          /\ disk' = disk
          /\ mem' = mem]_vars

\* a new turtle's image was copied but gave no features, and the call
\* returned failure
C26_Witness ==
    /\ sq.fn = "approve_review_packet" /\ ~out.ok
    /\ out.why = "Failed to process image"
    /\ sq.before.some /\ queue[sq.req] = sq.before
    /\ corpus[sq.newp] = "blank"


C25_ReleasedNotListed ==
    [][/\ (budget' = budget - 1 /\ sq'.fn = "clear_release_flag")
          => /\ out'.ok
                => /\ turtles'[sq'.target].meta =
                         [file |-> "ok", flag |-> FALSE, released |-> TRUE]
                   /\ sq'.target \notin GetTurtlesWithFlags(corpus', turtles')
             /\ (sq'.target = <<>> \/ turtles[sq'.target].meta.file = "none")
                => /\ ~out'.ok
                   /\ turtles' = turtles /\ corpus' = corpus /\ queue' = queue
                   /\ disk' = disk /\ mem' = mem /\ dirs' = dirs
       /\ \A p \in AllPaths :
             (/\ turtles[p].meta.file = "ok" /\ turtles[p].meta.released
              /\ turtles'[p].meta = turtles[p].meta)
             => /\ p \notin GetTurtlesWithFlags(corpus, turtles)
                /\ p \notin GetTurtlesWithFlags(corpus', turtles')]_vars

\* a flagged turtle has been released, and a later call has run
C25_Witness ==
    /\ \E p \in AllPaths : /\ turtles[p].meta.released
                           /\ p \notin GetTurtlesWithFlags(corpus, turtles)
    /\ sq.fn # "clear_release_flag"


\* ------------------------------------------------------------------- C28
\* C28: a call of reject_review_packet, whatever the request id, removes
\* only directories that lie strictly inside Review_Queue (never
\* Review_Queue itself, never anything beside or above it), and for a
\* request id that names no directory it returns failure and changes
\* nothing
C28_RejectStaysInQueue ==
    [][(budget' = budget - 1 /\ sq'.fn = "reject_review_packet")
       => /\ \A d \in dirs \ dirs' :
                /\ Len(d) > Len(ReviewQueueDir)
                /\ SubSeq(d, 1, Len(ReviewQueueDir)) = ReviewQueueDir
          /\ ~IsDir(ReviewQueueDir \o sq'.req)
             => /\ ~out'.ok
                /\ dirs' = dirs /\ queue' = queue /\ turtles' = turtles
                /\ corpus' = corpus]_vars

\* what the path check does stop: the parent of Review_Queue is not removed
RejectKeepsDataDir == DataDir \in dirs


\* ------------------------------------------------------------------- C29
\* C29: manager_ready is set only when the background initialisation has
\* assigned the manager or has failed; a handler is at a call on the manager
\* only with manager_ready set and the manager assigned; a handler whose
\* wait timed out has answered 503; a handler that got past the wait after
\* a failed initialisation has answered 500 or 503; no handler ends with
\* an uncaught exception from a call on None
C29_ReadinessGating ==
    /\ ready => phase \in {"up", "failed"}
    /\ \A w \in Workers :
          /\ hs[w].pc = "call" => (ready /\ phase = "up")
          /\ hs[w].waited = "timeout" => hs[w].resp = "503"
          /\ (hs[w].waited = "set" /\ hs[w].pc = "idle" /\ phase = "failed")
             => hs[w].resp \in {"500", "503"}
          /\ hs[w].resp # "crash"

\* the initialisation failed; one handler timed out waiting, the other got
\* past the wait and found manager None
C29_Witness ==
    /\ phase = "failed" /\ ready
    /\ \E w \in Workers : hs[w].waited = "timeout" /\ hs[w].resp = "503"
    /\ \E w \in Workers : hs[w].waited = "set" /\ hs[w].resp = "500"


====
